---- MODULE Spec2Model ----
(***************************************************************************)
(* Mobile Web IDE: the local-edit / remote-commit reconciliation core.     *)
(*                                                                         *)
(* State: the unsaved-changes map kept in localStorage (storage.js), the   *)
(* Editor's open-file fields (editor.js), the App orchestrator fields      *)
(* (app.js), the GitOps branch (git-ops.js), the GitHubAPI response cache  *)
(* (github-api.js), the remote branch refs, the API call in flight and the *)
(* App handler that awaits it.                                             *)
(*                                                                         *)
(* JavaScript runs handlers to completion; an async handler is suspended   *)
(* only at an await of a network response.  Each action below is one such  *)
(* run: from an event (or a response) up to the next await.                *)
(***************************************************************************)
EXTENDS Integers, Sequences, FiniteSets, TLC

VARIABLES
    unsavedChanges, \* localStorage[github_ide_unsaved_changes]: fileKey -> [content]
    editor,         \* Editor fields, plus value = the Monaco model's text
    app,            \* App fields: repo, branch, file, overlay, commit modal
    gitOps,         \* GitOps fields: owner, repo, currentBranch
    cache,          \* GitHubAPI.cache: cacheKey -> [data, timestamp]
    remote,         \* the hosting service: refs (branch -> commit), next object
                    \* id, commits (id -> tree and parents)
    call,           \* the GitHubAPI call in flight (or just settled)
    task,           \* the App handler suspended on that call
    now,            \* Date.now(), in milliseconds
    event,          \* history: name of the last step taken
    toast,          \* history: toast shown by the last step (Null if none)
    sent,           \* history: network requests issued by the last step
    store,          \* localStorage, the other items: storage key -> value
    auth,           \* Auth fields, the token poll in flight, the page's timers
    treeCall,       \* a getTree call made while call is in flight
    savedOn         \* history: fileKey -> the branch that was active when the
                    \* record was last written (the starting branch for the
                    \* records of earlier sessions and for keys never written)

vars == <<unsavedChanges, editor, app, gitOps, cache, remote, call, task,
          now, event, toast, sent, store, auth, treeCall, savedOn>>

(***************************************************************************)
(* Universes and bounds                                                    *)
(***************************************************************************)
Null == "<null>"                       \* JavaScript null / undefined
EmptyMap == [k \in {} |-> Null]        \* the object {}

Owner == "o"
Repo == "r"
OtherRepo == "rr"                      \* a repository whose name extends Repo
Paths == {"A.cs", "B.cs"}
RemoteContents == {"A", "B"}           \* file contents served by the remote
Contents == {""} \cup RemoteContents   \* texts the user can leave in the editor
Branches == {"main", "dev"}
MessageInputs == {"", " ", "fix"}      \* raw values of the commit-message box

MaxCommits == 1    \* commit objects the remote is asked to create
MaxMinutes == 5    \* minutes of wall-clock time that pass

MsPerMinute == 60 * 1000

(***************************************************************************)
(* String helpers (String.prototype.startsWith / substring / trim)         *)
(***************************************************************************)
StartsWith(s, prefix) ==
    Len(s) >= Len(prefix) /\ SubSeq(s, 1, Len(prefix)) = prefix

Substring(s, start) == SubSeq(s, start + 1, Len(s))

RECURSIVE TrimStart(_)
TrimStart(s) ==
    IF Len(s) > 0 /\ SubSeq(s, 1, 1) = " " THEN TrimStart(Substring(s, 1)) ELSE s

RECURSIVE TrimEnd(_)
TrimEnd(s) ==
    IF Len(s) > 0 /\ SubSeq(s, Len(s), Len(s)) = " "
    THEN TrimEnd(SubSeq(s, 1, Len(s) - 1)) ELSE s

Trim(s) == TrimEnd(TrimStart(s))

\* JavaScript truthiness of a string-or-null value
Truthy(x) == x # Null /\ x # ""

(***************************************************************************)
(* Storage (storage.js): the unsaved-changes object.  The stored timestamp *)
(* is only displayed, so a record is modelled by its content.              *)
(***************************************************************************)
fileKey(owner, repo, filePath) == owner \o "/" \o repo \o "/" \o filePath

Storage_getUnsavedChanges(changesData, owner, repo, filePath) ==
    IF fileKey(owner, repo, filePath) \in DOMAIN changesData
    THEN changesData[fileKey(owner, repo, filePath)]
    ELSE [content |-> Null]

Storage_setUnsavedChanges(changesData, owner, repo, filePath, content) ==
    [k \in DOMAIN changesData \cup {fileKey(owner, repo, filePath)} |->
        IF k = fileKey(owner, repo, filePath)
        THEN [content |-> content]
        ELSE changesData[k]]

\* setUnsavedChanges as its caller sees it: localStorage.setItem throws when
\* the quota is exceeded (writable = FALSE); the catch block logs the error
\* and returns false, and the stored object is as before.
QuotaExceededError == "QuotaExceededError"

Storage_setUnsavedChanges_try(changesData, owner, repo, filePath, content, writable) ==
    IF writable
    THEN [data |-> Storage_setUnsavedChanges(changesData, owner, repo, filePath, content),
          ret |-> TRUE]
    ELSE [data |-> changesData, ret |-> FALSE]

\* Variant: the key is deleted from the parsed object but the object is
\* never written back.
Storage_clearUnsavedChanges_notWritten(changesData, owner, repo, filePath) ==
    changesData

Storage_clearUnsavedChanges(changesData, owner, repo, filePath) ==
    [k \in DOMAIN changesData \ {fileKey(owner, repo, filePath)} |-> changesData[k]]

\* Variant: the prefix lacks its closing slash.
repoPrefix_noSlash(owner, repo) == owner \o "/" \o repo

repoPrefix(owner, repo) == owner \o "/" \o repo \o "/"

\* repoChanges: filePath -> record, for the keys that start with the prefix
Storage_getAllUnsavedChanges(changesData, owner, repo) ==
    LET prefix == repoPrefix(owner, repo)
        keys == {k \in DOMAIN changesData : StartsWith(k, prefix)}
    IN [filePath \in {Substring(k, Len(prefix)) : k \in keys} |->
            changesData[prefix \o filePath]]

\* ---- the other items of localStorage.  store maps the storage keys that
\* are present to their parsed values; removeItem takes a key out.
AUTH_TOKEN == "github_ide_auth_token"
CURRENT_REPO == "github_ide_current_repo"
PINNED_FILES == "github_ide_pinned_files"
LAST_BRANCH == "github_ide_last_branch"
USER_INFO == "github_ide_user_info"

LocalStorage_setItem(items, key, value) ==
    [k \in DOMAIN items \cup {key} |-> IF k = key THEN value ELSE items[k]]

LocalStorage_removeItem(items, key) ==
    [k \in DOMAIN items \ {key} |-> items[k]]

repoKey(owner, repo) == owner \o "/" \o repo

Storage_setAuthToken(items, token) == LocalStorage_setItem(items, AUTH_TOKEN, token)

Storage_getAuthToken(items) ==
    IF AUTH_TOKEN \in DOMAIN items THEN items[AUTH_TOKEN] ELSE Null

\* the parsed object of a per-repository item: {} when the item is absent
Storage_parsed(items, key) == IF key \in DOMAIN items THEN items[key] ELSE EmptyMap

Storage_setLastBranch(items, owner, repo, branch) ==
    LET branchData == Storage_parsed(items, LAST_BRANCH)
    IN LocalStorage_setItem(items, LAST_BRANCH,
           [k \in DOMAIN branchData \cup {repoKey(owner, repo)} |->
               IF k = repoKey(owner, repo) THEN branch ELSE branchData[k]])

Storage_getPinnedFiles(items, owner, repo) ==
    LET pinnedData == Storage_parsed(items, PINNED_FILES)
    IN IF repoKey(owner, repo) \in DOMAIN pinnedData
       THEN pinnedData[repoKey(owner, repo)]
       ELSE <<>>

Storage_setPinnedFiles(items, owner, repo, files) ==
    LET pinnedData == Storage_parsed(items, PINNED_FILES)
    IN LocalStorage_setItem(items, PINNED_FILES,
           [k \in DOMAIN pinnedData \cup {repoKey(owner, repo)} |->
               IF k = repoKey(owner, repo) THEN files ELSE pinnedData[k]])

includes(list, x) == \E i \in 1..Len(list) : list[i] = x

Storage_isFilePinned(items, owner, repo, filePath) ==
    includes(Storage_getPinnedFiles(items, owner, repo), filePath)

\* Variant: the path is pushed without looking for it in the list.
Storage_addPinnedFile_always(items, owner, repo, filePath) ==
    Storage_setPinnedFiles(items, owner, repo,
        Append(Storage_getPinnedFiles(items, owner, repo), filePath))

Storage_addPinnedFile(items, owner, repo, filePath) ==
    LET pinned == Storage_getPinnedFiles(items, owner, repo)
    IN IF ~includes(pinned, filePath)
       THEN Storage_setPinnedFiles(items, owner, repo, Append(pinned, filePath))
       ELSE items

Storage_removePinnedFile(items, owner, repo, filePath) ==
    LET pinned == Storage_getPinnedFiles(items, owner, repo)
        keep(p) == p # filePath
    IN Storage_setPinnedFiles(items, owner, repo, SelectSeq(pinned, keep))

\* clearAll removes the item of every storage key.  The unsaved-changes
\* item, the sixth key, is the variable unsavedChanges: it becomes {}.
STORAGE_KEYS == {AUTH_TOKEN, CURRENT_REPO, PINNED_FILES, LAST_BRANCH, USER_INFO}

Storage_clearAll(items) == [k \in DOMAIN items \ STORAGE_KEYS |-> items[k]]

(***************************************************************************)
(* Editor (editor.js).  The field currentContent is written by loadFile,   *)
(* save, discard, markAsCommitted and clear and read by nothing, so it is  *)
(* not part of the state here.                                             *)
(***************************************************************************)
Placeholder == "// Select a file to start editing"

Editor_getContent(ed) == ed.value

\* checkDirtyState calls onDirtyStateChange(isDirty) when the flag it
\* computes differs from the flag it found.
\* Variant: the flag is raised on a difference and never lowered again.
Editor_checkDirtyState_sticky(ed) ==
    [ed EXCEPT !.isDirty = (ed.isDirty \/ Editor_getContent(ed) # ed.originalContent)]

Editor_checkDirtyState(ed) ==
    LET wasDirty == ed.isDirty
        isDirty == (Editor_getContent(ed) # ed.originalContent)
    IN IF wasDirty # isDirty
       THEN [ed EXCEPT !.isDirty = isDirty,
                       !.lastNotified = isDirty,
                       !.renotified = (ed.lastNotified = isDirty)]
       ELSE ed

\* editor.setValue(v): Monaco replaces the text and emits
\* onDidChangeModelContent, whose listener runs checkDirtyState.
Monaco_setValue(ed, v) == Editor_checkDirtyState([ed EXCEPT !.value = v])

Editor_noFile(ed) ==
    ~Truthy(ed.currentFile) \/ ~Truthy(ed.owner) \/ ~Truthy(ed.repo)

Editor_loadFile(ed, changesData, filePath, content, owner, repo) ==
    LET unsaved == Storage_getUnsavedChanges(changesData, owner, repo, filePath)
        current == IF Truthy(unsaved.content) THEN unsaved.content ELSE content
    IN Editor_checkDirtyState(
        [ed EXCEPT !.currentFile = filePath,
                   !.originalContent = content,
                   !.owner = owner,
                   !.repo = repo,
                   !.value = current])

\* save / discard / markAsCommitted return the new editor, the new
\* unsaved-changes object and the method's return value.
\* save ignores what Storage.setUnsavedChanges returns.
\* Variant: a save also takes the saved text as the new originalContent.
Editor_save_rebase(ed, changesData, writable) ==
    IF Editor_noFile(ed)
    THEN [ed |-> ed, data |-> changesData, ret |-> FALSE]
    ELSE [ed |-> Editor_checkDirtyState(
                     [ed EXCEPT !.originalContent = Editor_getContent(ed)]),
          data |-> Storage_setUnsavedChanges_try(changesData, ed.owner, ed.repo,
                       ed.currentFile, Editor_getContent(ed), writable).data,
          ret |-> TRUE]

Editor_save(ed, changesData, writable) ==
    IF Editor_noFile(ed)
    THEN [ed |-> ed, data |-> changesData, ret |-> FALSE]
    ELSE [ed |-> ed,
          data |-> Storage_setUnsavedChanges_try(changesData, ed.owner, ed.repo,
                       ed.currentFile, Editor_getContent(ed), writable).data,
          ret |-> TRUE]

\* Variant: the text is reverted but the stored record is kept.
Editor_discard_keepsRecord(ed, changesData) ==
    IF Editor_noFile(ed)
    THEN [ed |-> ed, data |-> changesData, ret |-> FALSE]
    ELSE [ed |-> Editor_checkDirtyState(Monaco_setValue(ed, ed.originalContent)),
          data |-> changesData,
          ret |-> TRUE]

Editor_discard(ed, changesData) ==
    IF Editor_noFile(ed)
    THEN [ed |-> ed, data |-> changesData, ret |-> FALSE]
    ELSE [ed |-> Editor_checkDirtyState(Monaco_setValue(ed, ed.originalContent)),
          data |-> Storage_clearUnsavedChanges(changesData, ed.owner, ed.repo,
                                               ed.currentFile),
          ret |-> TRUE]

Editor_markAsCommitted(ed, changesData) ==
    IF Editor_noFile(ed)
    THEN [ed |-> ed, data |-> changesData, ret |-> FALSE]
    ELSE [ed |-> Editor_checkDirtyState(
                    [ed EXCEPT !.originalContent = Editor_getContent(ed)]),
          data |-> Storage_clearUnsavedChanges(changesData, ed.owner, ed.repo,
                                               ed.currentFile),
          ret |-> TRUE]

Editor_clear(ed) ==
    Monaco_setValue([ed EXCEPT !.currentFile = Null,
                               !.originalContent = Null,
                               !.isDirty = FALSE],
                    Placeholder)

(***************************************************************************)
(* GitHubAPI (github-api.js): the response cache                           *)
(***************************************************************************)
cacheDuration == 5 * 60 * 1000

\* Variant: an entry aged exactly cacheDuration is still served.
API_getFromCache_inclusive(c, key, t) ==
    IF key \in DOMAIN c /\ t - c[key].timestamp <= cacheDuration
    THEN <<c[key].data>>
    ELSE <<>>

\* _getFromCache returns the data or null; <<>> stands for null here.
API_getFromCache(c, key, t) ==
    IF key \in DOMAIN c /\ t - c[key].timestamp < cacheDuration
    THEN <<c[key].data>>
    ELSE <<>>

API_setCache(c, key, data, t) ==
    [k \in DOMAIN c \cup {key} |->
        IF k = key THEN [data |-> data, timestamp |-> t] ELSE c[k]]

\* Variant: nothing is deleted.
API_cacheDelete_noop(c, key) == c

\* Map.prototype.delete
API_cacheDelete(c, key) == [k \in DOMAIN c \ {key} |-> c[k]]

\* Variant: nothing is cleared.
API_clearCache_noop(c) == c

\* clearCache: Map.prototype.clear
API_clearCache(c) == EmptyMap

treeCacheKey(owner, repo, branch) ==
    "tree_" \o owner \o "_" \o repo \o "_" \o branch

branchesCacheKey(owner, repo) == "branches_" \o owner \o "_" \o repo

(***************************************************************************)
(* GitHubAPI calls.  call is the call in flight: fn and pc say which       *)
(* request it awaits; status is pending while a response is outstanding,   *)
(* resolved / rejected once the returned promise has settled and its       *)
(* awaiter has not yet run.                                                *)
(***************************************************************************)
NoCall ==
    [fn |-> "none", pc |-> "none", status |-> "none", branch |-> Null,
     newBranch |-> Null, path |-> Null, files |-> EmptyMap, message |-> Null,
     sha |-> 0, newSha |-> 0, result |-> <<>>,
     treeSha |-> <<>>,   \* currentTreeSha, once the parent commit is read
     blobs |-> EmptyMap, \* the tree entries built from the created blobs
     treeRequest |-> <<>>, \* history: the body of the createTree request
     newTree |-> <<>>,   \* newTree.sha, once the tree is created
     created |-> <<>>,   \* history: the body of the createCommit request
     ref0 |-> 0,         \* history: the commit the branch pointed to at the call
     issued |-> {},      \* history: requests this call has sent
     succeeded |-> {}]   \* history: requests this call got a good response to

\* A second caller's getTree: the arguments it was called with, the request
\* it awaits, the commit its ref lookup read and (history) what it returned.
NoTreeCall ==
    [pc |-> "none", owner |-> Null, repo |-> Null, branch |-> Null,
     recursive |-> TRUE, sha |-> 0, result |-> <<>>]

Pending(fn, pc) == [NoCall EXCEPT !.fn = fn, !.pc = pc, !.status = "pending"]

Resolve(c, value) == [c EXCEPT !.pc = "none", !.status = "resolved", !.result = <<value>>]

Reject(c) == [c EXCEPT !.status = "rejected", !.result = <<>>]

Settled(c) == c.status \in {"resolved", "rejected"}

\* getTree up to its first await: a cache hit returns at once, a miss sends
\* the ref lookup.  Yields the new call and the requests sent.
API_getTree(c, t, owner, repo, branch) ==
    LET cached == API_getFromCache(c, treeCacheKey(owner, repo, branch), t)
    IN IF cached # <<>>
       THEN [call |-> Resolve([NoCall EXCEPT !.fn = "getTree", !.branch = branch],
                              cached[1]),
             sent |-> <<>>]
       ELSE [call |-> [Pending("getTree", "getRef") EXCEPT !.branch = branch],
             sent |-> <<"getRef">>]

API_getBranches(c, t, owner, repo) ==
    LET cached == API_getFromCache(c, branchesCacheKey(owner, repo), t)
    IN IF cached # <<>>
       THEN [call |-> Resolve([NoCall EXCEPT !.fn = "getBranches"], cached[1]),
             sent |-> <<>>]
       ELSE [call |-> Pending("getBranches", "listBranches"),
             sent |-> <<"listBranches">>]

API_createBranch(newBranch, fromBranch) ==
    [call |-> [Pending("createBranch", "getRef") EXCEPT !.newBranch = newBranch,
                                                        !.branch = fromBranch],
     sent |-> <<"getRef">>]

\* files is non-empty: GitOps.commitMultipleFiles rejects an empty list.
API_commitMultipleFiles(rem, branch, files, message) ==
    [call |-> [Pending("commitMultipleFiles", "getRef")
                  EXCEPT !.branch = branch, !.files = files, !.message = message,
                         !.issued = {"getRef"},
                         !.ref0 = IF branch \in DOMAIN rem.refs
                                  THEN rem.refs[branch] ELSE 0],
     sent |-> <<"getRef">>]

API_getFileContent(path, branch) ==
    [call |-> [Pending("getFileContent", "getContent")
                  EXCEPT !.path = path, !.branch = branch],
     sent |-> <<"getContent">>]

Awaiting(fn, pc) == call.status = "pending" /\ call.fn = fn /\ call.pc = pc

\* event: the step's name, whether it ran to a successful end, and what the
\* user had entered for it: the text typed, or the answer to a confirm()
\* dialog (Null when the step asks for none)
EvArg(op, ok, arg) == [op |-> op, ok |-> ok, arg |-> arg]

Ev(op, ok) == EvArg(op, ok, Null)

\* A response step changes only the call, the cache and the remote.
ResponseFrame == UNCHANGED <<unsavedChanges, editor, app, gitOps, task, now, store, auth, treeCall, savedOn>>

\* The request of an intermediate step fails: the call's promise rejects.
ResponseFails(name) ==
    /\ call' = Reject(call)
    /\ sent' = <<>>
    /\ event' = Ev(name, FALSE)
    /\ toast' = Null
    /\ UNCHANGED <<cache, remote>>
    /\ ResponseFrame

\* ---- getTree: ref lookup, then the tree of that commit
API_getTree_onRef ==
    /\ Awaiting("getTree", "getRef")
    /\ \/ /\ call.branch \in DOMAIN remote.refs
          /\ call' = [call EXCEPT !.pc = "getTree", !.sha = remote.refs[call.branch]]
          /\ sent' = <<"getTree">>
          /\ event' = Ev("API_getTree_onRef", TRUE)
          /\ toast' = Null
          /\ UNCHANGED <<cache, remote>>
          /\ ResponseFrame
       \/ ResponseFails("API_getTree_onRef")

API_getTree_onTree ==
    /\ Awaiting("getTree", "getTree")
    /\ \/ /\ cache' = API_setCache(cache, treeCacheKey(Owner, Repo, call.branch),
                                   [sha |-> call.sha], now)
          /\ call' = Resolve(call, [sha |-> call.sha])
          /\ sent' = <<>>
          /\ event' = Ev("API_getTree_onTree", TRUE)
          /\ toast' = Null
          /\ UNCHANGED remote
          /\ ResponseFrame
       \/ ResponseFails("API_getTree_onTree")

\* ---- getTree called on the GitHubAPI object while another call may be in
\* flight.  The service answers for the repository, ref and recursive flag
\* of the request; TreeData keeps them with the commit the tree belongs to.
TreeData(sha, owner, repo, branch, recursive) ==
    [sha |-> sha, owner |-> owner, repo |-> repo, branch |-> branch,
     recursive |-> recursive]

\* The ref lookup of the service: Repo's refs are remote.refs, the other
\* repository has every branch at its first commit.
Remote_getRef(rem, repo, branch) ==
    IF repo # Repo THEN <<0>>
    ELSE IF branch \in DOMAIN rem.refs THEN <<rem.refs[branch]>>
    ELSE <<>>

TreeCallFrame ==
    UNCHANGED <<unsavedChanges, editor, app, gitOps, call, task, now, store, auth,
                savedOn>>

TreeCallFails(name) ==
    /\ treeCall' = [treeCall EXCEPT !.pc = "none"]
    /\ sent' = <<>>
    /\ event' = Ev(name, FALSE)
    /\ toast' = Null
    /\ UNCHANGED <<cache, remote>>
    /\ TreeCallFrame

API_getTree_call ==
    /\ treeCall.pc = "none" /\ ~Settled(call) /\ task.pc # "returned"
    /\ \E repo \in {Repo, OtherRepo}, branch \in Branches, recursive \in BOOLEAN :
        LET cached == API_getFromCache(cache, treeCacheKey(Owner, repo, branch), now)
            request == [NoTreeCall EXCEPT !.owner = Owner, !.repo = repo,
                                          !.branch = branch,
                                          !.recursive = recursive]
        IN IF cached # <<>>
           THEN /\ treeCall' = [request EXCEPT !.result = cached]
                /\ sent' = <<>>
           ELSE /\ treeCall' = [request EXCEPT !.pc = "getRef"]
                /\ sent' = <<"getRef">>
    /\ event' = Ev("API_getTree_call", TRUE)
    /\ toast' = Null
    /\ UNCHANGED <<cache, remote>>
    /\ TreeCallFrame

API_getTree_call_onRef ==
    /\ treeCall.pc = "getRef"
    /\ \/ /\ Remote_getRef(remote, treeCall.repo, treeCall.branch) # <<>>
          /\ treeCall' = [treeCall EXCEPT
                  !.pc = "getTree",
                  !.sha = Remote_getRef(remote, treeCall.repo, treeCall.branch)[1]]
          /\ sent' = <<"getTree">>
          /\ event' = Ev("API_getTree_call_onRef", TRUE)
          /\ toast' = Null
          /\ UNCHANGED <<cache, remote>>
          /\ TreeCallFrame
       \/ TreeCallFails("API_getTree_call_onRef")

API_getTree_call_onTree ==
    /\ treeCall.pc = "getTree"
    /\ \/ LET data == TreeData(treeCall.sha, treeCall.owner, treeCall.repo,
                                treeCall.branch, treeCall.recursive)
          IN /\ cache' = API_setCache(cache,
                             treeCacheKey(treeCall.owner, treeCall.repo,
                                          treeCall.branch),
                             data, now)
             /\ treeCall' = [treeCall EXCEPT !.pc = "none", !.result = <<data>>]
             /\ sent' = <<>>
             /\ event' = Ev("API_getTree_call_onTree", TRUE)
             /\ toast' = Null
             /\ UNCHANGED remote
             /\ TreeCallFrame
       \/ TreeCallFails("API_getTree_call_onTree")

\* ---- getBranches
API_getBranches_onList ==
    /\ Awaiting("getBranches", "listBranches")
    /\ \/ /\ cache' = API_setCache(cache, branchesCacheKey(Owner, Repo),
                                   DOMAIN remote.refs, now)
          /\ call' = Resolve(call, DOMAIN remote.refs)
          /\ sent' = <<>>
          /\ event' = Ev("API_getBranches_onList", TRUE)
          /\ toast' = Null
          /\ UNCHANGED remote
          /\ ResponseFrame
       \/ ResponseFails("API_getBranches_onList")

\* ---- createBranch: ref lookup of fromBranch, then createRef
API_createBranch_onRef ==
    /\ Awaiting("createBranch", "getRef")
    /\ \/ /\ call.branch \in DOMAIN remote.refs
          /\ call' = [call EXCEPT !.pc = "createRef", !.sha = remote.refs[call.branch]]
          /\ sent' = <<"createRef">>
          /\ event' = Ev("API_createBranch_onRef", TRUE)
          /\ toast' = Null
          /\ UNCHANGED <<cache, remote>>
          /\ ResponseFrame
       \/ ResponseFails("API_createBranch_onRef")

\* Variant: the branches entry is deleted whether or not createRef succeeded.
API_createBranch_onCreateRef_alwaysDeletes ==
    /\ Awaiting("createBranch", "createRef")
    /\ \/ /\ call.newBranch \notin DOMAIN remote.refs
          /\ remote' = [remote EXCEPT !.refs =
                            [b \in DOMAIN remote.refs \cup {call.newBranch} |->
                                IF b = call.newBranch THEN call.sha ELSE remote.refs[b]]]
          /\ cache' = API_cacheDelete(cache, branchesCacheKey(Owner, Repo))
          /\ call' = Resolve(call, call.newBranch)
          /\ sent' = <<>>
          /\ event' = Ev("API_createBranch_onCreateRef", TRUE)
          /\ toast' = Null
          /\ ResponseFrame
       \/ /\ call' = Reject(call)
          /\ cache' = API_cacheDelete(cache, branchesCacheKey(Owner, Repo))
          /\ sent' = <<>>
          /\ event' = Ev("API_createBranch_onCreateRef", FALSE)
          /\ toast' = Null
          /\ UNCHANGED remote
          /\ ResponseFrame

API_createBranch_onCreateRef ==
    /\ Awaiting("createBranch", "createRef")
    /\ \/ /\ call.newBranch \notin DOMAIN remote.refs   \* else the service answers 422
          /\ remote' = [remote EXCEPT !.refs =
                            [b \in DOMAIN remote.refs \cup {call.newBranch} |->
                                IF b = call.newBranch THEN call.sha ELSE remote.refs[b]]]
          /\ cache' = API_cacheDelete(cache, branchesCacheKey(Owner, Repo))
          /\ call' = Resolve(call, call.newBranch)
          /\ sent' = <<>>
          /\ event' = Ev("API_createBranch_onCreateRef", TRUE)
          /\ toast' = Null
          /\ ResponseFrame
       \/ ResponseFails("API_createBranch_onCreateRef")

\* ---- getFileContent
API_getFileContent_onContent ==
    /\ Awaiting("getFileContent", "getContent")
    /\ \/ \E content \in RemoteContents :
            /\ call' = Resolve(call, content)
            /\ sent' = <<>>
            /\ event' = Ev("API_getFileContent_onContent", TRUE)
            /\ toast' = Null
            /\ UNCHANGED <<cache, remote>>
            /\ ResponseFrame
       \/ ResponseFails("API_getFileContent_onContent")

\* ---- commitMultipleFiles: getRef, getCommit, createBlob (all files at
\* once, awaited together), createTree, createCommit, updateRef
\* Object names.  A blob is named by the content it holds.  The remote
\* names a new tree by its next free id; only a created commit uses an id
\* up, so the trees that commits point to have distinct names.
RootTree == 0                          \* the tree of the first commit

\* createTree's response: the sha of the new tree
Remote_createTree(rem) == rem.nextSha

\* files.map(...): one entry per file, a regular file holding the new blob
API_commit_blobs(files) ==
    [path \in DOMAIN files |->
        [path |-> path, mode |-> "100644", type |-> "blob", sha |-> files[path]]]

\* Variant: the tree is created from the entries alone, without base_tree.
API_commit_treeRequest_noBase(c) ==
    [base_tree |-> <<>>, tree |-> c.blobs]

\* The body of the createTree request
API_commit_treeRequest(c) ==
    [base_tree |-> <<c.treeSha[1]>>, tree |-> c.blobs]

\* The body of the createCommit request
API_commit_commitRequest(c) ==
    [message |-> c.message, tree |-> c.newTree[1], parents |-> <<c.sha>>]

CommitStepOk(name, step, nextPc, requests, c) ==
    /\ call' = [c EXCEPT !.pc = nextPc,
                            !.succeeded = @ \cup {step},
                            !.issued = @ \cup {nextPc}]
    /\ sent' = requests
    /\ event' = Ev(name, TRUE)
    /\ toast' = Null
    /\ UNCHANGED cache
    /\ ResponseFrame

API_commit_onRef ==
    /\ Awaiting("commitMultipleFiles", "getRef")
    /\ \/ /\ call.branch \in DOMAIN remote.refs
          /\ call' = [call EXCEPT !.pc = "getCommit",
                                  !.sha = remote.refs[call.branch],
                                  !.succeeded = @ \cup {"getRef"},
                                  !.issued = @ \cup {"getCommit"}]
          /\ sent' = <<"getCommit">>
          /\ event' = Ev("API_commit_onRef", TRUE)
          /\ toast' = Null
          /\ UNCHANGED <<cache, remote>>
          /\ ResponseFrame
       \/ ResponseFails("API_commit_onRef")

API_commit_onCommit ==
    /\ Awaiting("commitMultipleFiles", "getCommit")
    /\ \/ /\ CommitStepOk("API_commit_onCommit", "getCommit", "createBlob",
                          [i \in 1..Cardinality(DOMAIN call.files) |-> "createBlob"],
                          [call EXCEPT !.treeSha = <<remote.commits[call.sha].tree>>])
          /\ UNCHANGED remote
       \/ ResponseFails("API_commit_onCommit")

\* Promise.all: resumes when every blob exists, rejects at the first failure
API_commit_onBlobs ==
    /\ Awaiting("commitMultipleFiles", "createBlob")
    /\ \/ /\ CommitStepOk("API_commit_onBlobs", "createBlob", "createTree",
                          <<"createTree">>,
                          LET c == [call EXCEPT !.blobs = API_commit_blobs(call.files)]
                          IN [c EXCEPT !.treeRequest = <<API_commit_treeRequest(c)>>])
          /\ UNCHANGED remote
       \/ ResponseFails("API_commit_onBlobs")

\* Variant: a failed createTree is not noticed and the protocol goes on.
API_commit_onTree_swallow ==
    /\ Awaiting("commitMultipleFiles", "createTree")
    /\ \/ /\ CommitStepOk("API_commit_onTree", "createTree", "createCommit",
                          <<"createCommit">>,
                          LET newTree == Remote_createTree(remote)
                              c == [call EXCEPT !.newTree = <<newTree>>]
                          IN [c EXCEPT !.created = <<API_commit_commitRequest(c)>>])
          /\ UNCHANGED remote
       \/ /\ call' = [call EXCEPT !.pc = "createCommit",
                                  !.issued = @ \cup {"createCommit"},
                                  !.created = <<[message |-> call.message,
                                                 tree |-> RootTree,
                                                 parents |-> <<call.sha>>]>>]
          /\ sent' = <<"createCommit">>
          /\ event' = Ev("API_commit_onTree", FALSE)
          /\ toast' = Null
          /\ UNCHANGED <<cache, remote>>
          /\ ResponseFrame

API_commit_onTree ==
    /\ Awaiting("commitMultipleFiles", "createTree")
    /\ \/ /\ CommitStepOk("API_commit_onTree", "createTree", "createCommit",
                          <<"createCommit">>,
                          LET newTree == Remote_createTree(remote)
                              c == [call EXCEPT !.newTree = <<newTree>>]
                          IN [c EXCEPT !.created = <<API_commit_commitRequest(c)>>])
          /\ UNCHANGED remote
       \/ ResponseFails("API_commit_onTree")

API_commit_onCreateCommit ==
    /\ Awaiting("commitMultipleFiles", "createCommit")
    /\ \/ /\ call' = [call EXCEPT !.pc = "updateRef",
                                  !.newSha = remote.nextSha,
                                  !.succeeded = @ \cup {"createCommit"},
                                  !.issued = @ \cup {"updateRef"}]
          /\ remote' = [remote EXCEPT
                  !.nextSha = @ + 1,
                  !.commits = [sha \in DOMAIN @ \cup {remote.nextSha} |->
                      IF sha = remote.nextSha
                      THEN [tree |-> call.created[1].tree,
                            parents |-> call.created[1].parents]
                      ELSE @[sha]]]
          /\ sent' = <<"updateRef">>
          /\ event' = Ev("API_commit_onCreateCommit", TRUE)
          /\ toast' = Null
          /\ UNCHANGED cache
          /\ ResponseFrame
       \/ ResponseFails("API_commit_onCreateCommit")

API_commit_onUpdateRef ==
    /\ Awaiting("commitMultipleFiles", "updateRef")
    /\ \/ /\ remote' = [remote EXCEPT !.refs[call.branch] = call.newSha]
          /\ cache' = API_cacheDelete(cache, treeCacheKey(Owner, Repo, call.branch))
          /\ call' = [Resolve(call, [sha |-> call.newSha])
                         EXCEPT !.succeeded = @ \cup {"updateRef"}]
          /\ sent' = <<>>
          /\ event' = Ev("API_commit_onUpdateRef", TRUE)
          /\ toast' = Null
          /\ ResponseFrame
       \/ ResponseFails("API_commit_onUpdateRef")

(***************************************************************************)
(* GitOps (git-ops.js)                                                     *)
(***************************************************************************)
GitOps_getUnsavedChanges(changesData, g) ==
    Storage_getAllUnsavedChanges(changesData, g.owner, g.repo)

GitOps_hasUncommittedChanges(changesData, g) ==
    Cardinality(DOMAIN GitOps_getUnsavedChanges(changesData, g)) > 0

NoBranchSelected == "No branch selected"
NoFilesToCommit == "No files to commit"
NoUnsavedChanges == "No unsaved changes to commit"
CannotPull == "Cannot pull: You have unsaved changes. Please commit or discard them first."
CannotPush == "Cannot push: You have uncommitted changes. Please commit them first."
NetworkError == "request failed"

\* A GitOps method up to its first await: either it throws (error) or it
\* has made an API call.  calls lists the API calls made.
Thrown(msg) == [error |-> msg, call |-> NoCall, sent |-> <<>>, calls |-> <<>>]

GitOps_commitMultipleFiles(g, rem, files, message) ==
    IF ~Truthy(g.currentBranch) THEN Thrown(NoBranchSelected)
    ELSE IF Cardinality(DOMAIN files) = 0 THEN Thrown(NoFilesToCommit)
    ELSE LET r == API_commitMultipleFiles(rem, g.currentBranch, files, message)
         IN [error |-> Null, call |-> r.call, sent |-> r.sent,
             calls |-> <<[branch |-> g.currentBranch, files |-> files,
                          message |-> message]>>]

\* Variant: neither commitAllChanges nor commitMultipleFiles looks at the
\* number of files.
GitOps_commitAllChanges_unchecked(changesData, g, rem, message) ==
    LET changes == GitOps_getUnsavedChanges(changesData, g)
        files == [path \in DOMAIN changes |-> changes[path].content]
        r == API_commitMultipleFiles(rem, g.currentBranch, files, message)
    IN [error |-> Null, call |-> r.call, sent |-> r.sent,
        calls |-> <<[branch |-> g.currentBranch, files |-> files,
                     message |-> message]>>]

GitOps_commitAllChanges(changesData, g, rem, message) ==
    LET changes == GitOps_getUnsavedChanges(changesData, g)
        filePaths == DOMAIN changes
    IN IF Cardinality(filePaths) = 0 THEN Thrown(NoUnsavedChanges)
       ELSE GitOps_commitMultipleFiles(g, rem,
                [path \in filePaths |-> changes[path].content], message)

\* files.forEach(file => Storage.clearUnsavedChanges(owner, repo, file.path))
RECURSIVE ClearCommitted(_, _, _, _)
ClearCommitted(changesData, owner, repo, paths) ==
    IF paths = {} THEN changesData
    ELSE LET path == CHOOSE p \in paths : TRUE
         IN ClearCommitted(Storage_clearUnsavedChanges(changesData, owner, repo, path),
                           owner, repo, paths \ {path})

\* Variant: pull does not look at the unsaved changes.
GitOps_pull_check_noRecords(changesData, g) ==
    IF ~Truthy(g.currentBranch) THEN NoBranchSelected
    ELSE Null

\* pull and push up to the point where they throw or go on
GitOps_pull_check(changesData, g) ==
    IF ~Truthy(g.currentBranch) THEN NoBranchSelected
    ELSE IF GitOps_hasUncommittedChanges(changesData, g) THEN CannotPull
    ELSE Null

\* Variant: push does not look at the unsaved changes.
GitOps_push_noRecords(changesData, g) ==
    IF ~Truthy(g.currentBranch) THEN NoBranchSelected
    ELSE Null

GitOps_push(changesData, g) ==
    IF ~Truthy(g.currentBranch) THEN NoBranchSelected
    ELSE IF GitOps_hasUncommittedChanges(changesData, g) THEN CannotPush
    ELSE Null

(***************************************************************************)
(* App (app.js): the event handlers                                        *)
(***************************************************************************)
NoTask ==
    [op |-> "none", pc |-> "idle", path |-> Null, branch |-> Null,
     files |-> EmptyMap, ok |-> FALSE, error |-> Null,
     before |-> EmptyMap,   \* history: the unsaved-changes object at the call
     cache0 |-> EmptyMap,   \* history: the response cache at the call
     calls |-> <<>>]        \* history: the API commit calls the handler made

\* No promise continuation is waiting to run: the browser may deliver the
\* next user event, timer or network response.
Quiescent == ~Settled(call) /\ task.pc # "returned"

\* The loading overlay covers the page while it is shown, and the commit
\* modal covers the page behind it: no button, tab or selector below can
\* be used.  The keyboard still reaches the editor.
Clickable == Quiescent /\ ~app.loading /\ ~app.commitModal

\* Variant: the overlay is left as it was.
showLoading_skipped(a) == a

showLoading(a) == [a EXCEPT !.loading = TRUE]
hideLoading(a) == [a EXCEPT !.loading = FALSE]

StepArg(name, ok, arg, message, requests) ==
    /\ event' = EvArg(name, ok, arg)
    /\ toast' = message
    /\ sent' = requests

Step(name, ok, message, requests) == StepArg(name, ok, Null, message, requests)

\* ---- typing in the Monaco editor (onDidChangeModelContent listener)
EditorType ==
    /\ UNCHANGED <<store, auth, treeCall, savedOn>>
    /\ Quiescent
    /\ \E text \in Contents :
        /\ text # editor.value
        /\ editor' = Monaco_setValue(editor, text)
    /\ Step("EditorType", TRUE, Null, <<>>)
    /\ UNCHANGED <<unsavedChanges, app, gitOps, cache, remote, call, task, now>>

\* history: the error localStorage.setItem threw during a save (Null if none)
WriteError(ed, writable) ==
    IF ~Editor_noFile(ed) /\ ~writable THEN QuotaExceededError ELSE Null

\* History: a save that wrote the open file's record did so on this branch
SavedOn(history, ed, writable, branch) ==
    IF Editor_noFile(ed) \/ ~writable THEN history
    ELSE [history EXCEPT ![fileKey(ed.owner, ed.repo, ed.currentFile)] = branch]

\* ---- Ctrl+S / Cmd+S inside the editor (editor.addCommand)
EditorSaveCommand ==
    /\ UNCHANGED <<store, auth, treeCall>>
    /\ Quiescent
    /\ \E writable \in BOOLEAN :
        LET r == Editor_save(editor, unsavedChanges, writable)
        IN /\ editor' = r.ed
           /\ unsavedChanges' = r.data
           /\ savedOn' = SavedOn(savedOn, editor, writable, app.currentBranch)
           /\ StepArg("EditorSaveCommand", r.ret, WriteError(editor, writable),
                      Null, <<>>)
    /\ UNCHANGED <<app, gitOps, cache, remote, call, task, now>>

\* ---- save button
App_saveCurrentFile ==
    /\ UNCHANGED <<store, auth, treeCall>>
    /\ Clickable
    /\ IF ~Truthy(app.currentFile)
       THEN /\ Step("App_saveCurrentFile", FALSE, "No file open", <<>>)
            /\ UNCHANGED <<editor, unsavedChanges, savedOn>>
       ELSE \E writable \in BOOLEAN :
            LET r == Editor_save(editor, unsavedChanges, writable)
            IN /\ editor' = r.ed
               /\ unsavedChanges' = r.data
               /\ savedOn' = SavedOn(savedOn, editor, writable, app.currentBranch)
               /\ StepArg("App_saveCurrentFile", r.ret,
                          WriteError(editor, writable), "Saved locally", <<>>)
    /\ UNCHANGED <<app, gitOps, cache, remote, call, task, now>>

\* ---- discard button, with its confirm() dialog
App_discardCurrentFile ==
    /\ UNCHANGED <<store, auth, treeCall, savedOn>>
    /\ Clickable
    /\ \E confirmed \in BOOLEAN :
        IF ~Truthy(app.currentFile)
        THEN /\ Step("App_discardCurrentFile", FALSE, "No file open", <<>>)
             /\ UNCHANGED <<editor, unsavedChanges>>
        ELSE IF ~confirmed
        THEN /\ Step("App_discardCurrentFile", FALSE, Null, <<>>)
             /\ UNCHANGED <<editor, unsavedChanges>>
        ELSE LET r == Editor_discard(editor, unsavedChanges)
             IN /\ editor' = r.ed
                /\ unsavedChanges' = r.data
                /\ Step("App_discardCurrentFile", r.ret, "Changes discarded", <<>>)
    /\ UNCHANGED <<app, gitOps, cache, remote, call, task, now>>

\* ---- a file of the tree (or a pinned tab) is selected.  The tree offers
\* text files below the size limit.
App_handleFileSelect ==
    /\ UNCHANGED <<store, auth, treeCall, savedOn>>
    /\ Clickable
    /\ \E filePath \in Paths :
        LET r == API_getFileContent(filePath, app.currentBranch)
        IN /\ app' = showLoading(app)
           /\ call' = r.call
           /\ task' = [NoTask EXCEPT !.op = "handleFileSelect", !.pc = "content",
                                     !.path = filePath]
           /\ Step("App_handleFileSelect", TRUE, Null, r.sent)
    /\ UNCHANGED <<unsavedChanges, editor, gitOps, cache, remote, now>>

App_handleFileSelect_afterContent ==
    /\ UNCHANGED <<store, auth, treeCall, savedOn>>
    /\ task.op = "handleFileSelect" /\ task.pc = "content" /\ Settled(call)
    /\ IF call.status = "resolved"
       THEN /\ app' = hideLoading([app EXCEPT !.currentFile = task.path])
            /\ editor' = [Editor_loadFile(editor, unsavedChanges, task.path,
                                          call.result[1], app.currentRepo.owner,
                                          app.currentRepo.repo)
                             EXCEPT !.lastCommitted = call.result[1]]
            /\ Step("App_handleFileSelect_afterContent", TRUE, Null, <<>>)
       ELSE /\ app' = hideLoading(app)
            /\ UNCHANGED editor
            /\ Step("App_handleFileSelect_afterContent", FALSE,
                    "Failed to load file: " \o NetworkError, <<>>)
    /\ call' = NoCall
    /\ task' = NoTask
    /\ UNCHANGED <<unsavedChanges, gitOps, cache, remote, now>>

\* ---- branch selector change, with its confirm() dialog
App_switchBranch ==
    /\ Clickable
    /\ \E branch \in app.branches, confirmed \in BOOLEAN :
        /\ branch # app.currentBranch
        /\ IF GitOps_hasUncommittedChanges(unsavedChanges, gitOps) /\ ~confirmed
           THEN /\ StepArg("App_switchBranch", FALSE, "declined", Null, <<>>)
                /\ UNCHANGED <<app, gitOps, call, task, store>>
           ELSE LET r == API_getTree(cache, now, app.currentRepo.owner,
                                     app.currentRepo.repo, branch)
                IN /\ app' = showLoading([app EXCEPT !.currentBranch = branch])
                   /\ gitOps' = [gitOps EXCEPT !.currentBranch = branch]
                   /\ store' = Storage_setLastBranch(store, app.currentRepo.owner,
                                                     app.currentRepo.repo, branch)
                   /\ call' = r.call
                   /\ task' = [NoTask EXCEPT !.op = "switchBranch", !.pc = "tree",
                                             !.branch = branch]
                   /\ StepArg("App_switchBranch", TRUE,
                              IF GitOps_hasUncommittedChanges(unsavedChanges, gitOps)
                              THEN "confirmed" ELSE Null,
                              Null, r.sent)
    /\ UNCHANGED <<unsavedChanges, editor, cache, remote, now, auth, treeCall, savedOn>>

App_switchBranch_afterTree ==
    /\ UNCHANGED <<store, auth, treeCall, savedOn>>
    /\ task.op = "switchBranch" /\ task.pc = "tree" /\ Settled(call)
    /\ app' = hideLoading([app EXCEPT !.currentFile = Null])
    /\ editor' = Editor_clear(editor)
    /\ Step("App_switchBranch_afterTree", call.status = "resolved",
            "Switched to branch: " \o task.branch, <<>>)
    /\ call' = NoCall
    /\ task' = NoTask
    /\ UNCHANGED <<unsavedChanges, gitOps, cache, remote, now>>

\* ---- new-branch modal: a name is typed and Create is pressed
BranchInputs == {"", "dev"}

App_handleCreateBranch ==
    /\ UNCHANGED <<store, auth, treeCall, savedOn>>
    /\ Clickable
    /\ \E input \in BranchInputs :
        LET newBranch == Trim(input)
            r == API_createBranch(newBranch, app.currentBranch)
        IN IF newBranch = ""
           THEN /\ Step("App_handleCreateBranch", FALSE,
                        "Please enter a branch name", <<>>)
                /\ UNCHANGED <<app, call, task>>
           ELSE /\ app' = showLoading(app)
                /\ call' = r.call
                /\ task' = [NoTask EXCEPT !.op = "handleCreateBranch",
                                          !.pc = "createBranch",
                                          !.branch = newBranch,
                                          !.cache0 = cache]
                /\ Step("App_handleCreateBranch", TRUE, Null, r.sent)
    /\ UNCHANGED <<unsavedChanges, editor, gitOps, cache, remote, now>>

App_handleCreateBranch_afterCreate ==
    /\ UNCHANGED <<store, auth, treeCall, savedOn>>
    /\ task.op = "handleCreateBranch" /\ task.pc = "createBranch" /\ Settled(call)
    /\ IF call.status = "resolved"
       THEN LET r == API_getBranches(cache, now, app.currentRepo.owner,
                                     app.currentRepo.repo)
            IN /\ call' = r.call
               /\ task' = [task EXCEPT !.pc = "getBranches"]
               /\ Step("App_handleCreateBranch_afterCreate", TRUE, Null, r.sent)
               /\ UNCHANGED app
       ELSE /\ call' = NoCall
            /\ task' = NoTask
            /\ app' = hideLoading(app)
            /\ Step("App_handleCreateBranch_afterCreate", FALSE,
                    "Failed to create branch: " \o NetworkError, <<>>)
    /\ UNCHANGED <<unsavedChanges, editor, gitOps, cache, remote, now>>

App_handleCreateBranch_afterBranches ==
    /\ task.op = "handleCreateBranch" /\ task.pc = "getBranches" /\ Settled(call)
    /\ IF call.status = "resolved"
       THEN /\ app' = hideLoading([app EXCEPT !.branches = call.result[1],
                                              !.currentBranch = task.branch])
            /\ gitOps' = [gitOps EXCEPT !.currentBranch = task.branch]
            /\ store' = Storage_setLastBranch(store, app.currentRepo.owner,
                                              app.currentRepo.repo, task.branch)
            /\ Step("App_handleCreateBranch_afterBranches", TRUE,
                    "Created and switched to branch: " \o task.branch, <<>>)
       ELSE /\ app' = hideLoading(app)
            /\ UNCHANGED <<gitOps, store>>
            /\ Step("App_handleCreateBranch_afterBranches", FALSE,
                    "Failed to create branch: " \o NetworkError, <<>>)
    /\ call' = NoCall
    /\ task' = NoTask
    /\ UNCHANGED <<unsavedChanges, editor, cache, remote, now, auth, treeCall, savedOn>>

\* ---- commit button: the modal opens when something is pending
App_showCommitModal ==
    /\ UNCHANGED <<store, auth, treeCall, savedOn>>
    /\ Clickable
    /\ IF Cardinality(DOMAIN GitOps_getUnsavedChanges(unsavedChanges, gitOps)) = 0
       THEN /\ Step("App_showCommitModal", FALSE, "No changes to commit", <<>>)
            /\ UNCHANGED app
       ELSE /\ app' = [app EXCEPT !.commitModal = TRUE]
            /\ Step("App_showCommitModal", TRUE, Null, <<>>)
    /\ UNCHANGED <<unsavedChanges, editor, gitOps, cache, remote, call, task, now>>

\* ---- Cancel / close button of the modal: hideModal('commit-modal')
App_cancelCommit ==
    /\ UNCHANGED <<store, auth, treeCall, savedOn>>
    /\ Quiescent /\ ~app.loading /\ app.commitModal
    /\ app' = [app EXCEPT !.commitModal = FALSE]
    /\ Step("App_cancelCommit", TRUE, Null, <<>>)
    /\ UNCHANGED <<unsavedChanges, editor, gitOps, cache, remote, call, task, now>>

\* ---- Commit button of the modal, pressed with some text in the message
\* box: handleCommit up to the await inside gitOps.commitAllChanges
\* Variant: the message is tested before it is trimmed.
App_messageMissing_noTrim(text) == ~Truthy(text)

App_messageMissing(text) == ~Truthy(Trim(text))

App_handleCommit ==
    /\ UNCHANGED <<store, auth, treeCall, savedOn>>
    /\ Quiescent /\ ~app.loading /\ app.commitModal
    /\ \E text \in MessageInputs :
       LET message == Trim(text)
           r == GitOps_commitAllChanges(unsavedChanges, gitOps, remote, message)
       IN IF App_messageMissing(text)
          THEN /\ StepArg("App_handleCommit", FALSE, text,
                          "Please enter a commit message", <<>>)
               /\ UNCHANGED <<app, call, task>>
          ELSE IF r.error # Null
          THEN /\ app' = hideLoading([app EXCEPT !.commitModal = FALSE])
               /\ StepArg("App_handleCommit", FALSE, text,
                          "Commit failed: " \o r.error, <<>>)
               /\ UNCHANGED <<call, task>>
          ELSE /\ remote.nextSha <= MaxCommits
               /\ app' = showLoading([app EXCEPT !.commitModal = FALSE])
               /\ call' = r.call
               /\ task' = [NoTask EXCEPT !.op = "handleCommit", !.pc = "commit",
                                         !.files = r.call.files,
                                         !.branch = r.call.branch,
                                         !.before = unsavedChanges,
                                         !.cache0 = cache,
                                         !.calls = r.calls]
               /\ StepArg("App_handleCommit", TRUE, text, Null, r.sent)
    /\ UNCHANGED <<unsavedChanges, editor, gitOps, cache, remote, now>>

\* History: once a commit has succeeded, the content sent for the open file
\* is what the remote is known to hold for it.
CommitKnown(ed, succeeded, files) ==
    IF succeeded /\ Truthy(ed.currentFile) /\ ed.currentFile \in DOMAIN files
    THEN [ed EXCEPT !.lastCommitted = files[ed.currentFile]]
    ELSE ed

\* The callers that await gitOps.commitAllChanges: App.handleCommit, and a
\* caller that uses the GitOps object directly
CommitCallers == {"handleCommit", "commitAllChanges"}

\* Variant: the records are cleared in a finally block.
GitOps_commitAllChanges_return_finally ==
    /\ UNCHANGED <<store, auth, treeCall, savedOn>>
    /\ task.op \in CommitCallers /\ task.pc = "commit" /\ Settled(call)
    /\ unsavedChanges' = ClearCommitted(unsavedChanges, gitOps.owner,
                                        gitOps.repo, DOMAIN task.files)
    /\ IF call.status = "resolved"
       THEN /\ task' = [task EXCEPT !.pc = "returned", !.ok = TRUE]
            /\ Step("GitOps_commitAllChanges_return", TRUE, Null, <<>>)
       ELSE /\ task' = [task EXCEPT !.pc = "returned", !.ok = FALSE,
                                    !.error = NetworkError]
            /\ Step("GitOps_commitAllChanges_return", FALSE, Null, <<>>)
    /\ call' = NoCall
    /\ editor' = CommitKnown(editor, call.status = "resolved", task.files)
    /\ UNCHANGED <<app, gitOps, cache, remote, now>>

\* ---- api.commitMultipleFiles has settled: the rest of
\* GitOps.commitMultipleFiles and commitAllChanges, up to their return
GitOps_commitAllChanges_return ==
    /\ UNCHANGED <<store, auth, treeCall, savedOn>>
    /\ task.op \in CommitCallers /\ task.pc = "commit" /\ Settled(call)
    /\ IF call.status = "resolved"
       THEN /\ unsavedChanges' = ClearCommitted(unsavedChanges, gitOps.owner,
                                                gitOps.repo, DOMAIN task.files)
            /\ task' = [task EXCEPT !.pc = "returned", !.ok = TRUE]
            /\ Step("GitOps_commitAllChanges_return", TRUE, Null, <<>>)
       ELSE /\ UNCHANGED unsavedChanges
            /\ task' = [task EXCEPT !.pc = "returned", !.ok = FALSE,
                                    !.error = NetworkError]
            /\ Step("GitOps_commitAllChanges_return", FALSE, Null, <<>>)
    /\ call' = NoCall
    /\ editor' = CommitKnown(editor, call.status = "resolved", task.files)
    /\ UNCHANGED <<app, gitOps, cache, remote, now>>

\* ---- handleCommit resumes after the await: markAsCommitted, then
\* loadFileTree up to its await of getTree
App_handleCommit_afterCommit ==
    /\ UNCHANGED <<store, auth, treeCall, savedOn>>
    /\ task.op = "handleCommit" /\ task.pc = "returned"
    /\ IF task.ok
       THEN LET m == IF Truthy(app.currentFile)
                     THEN Editor_markAsCommitted(editor, unsavedChanges)
                     ELSE [ed |-> editor, data |-> unsavedChanges, ret |-> FALSE]
                r == API_getTree(cache, now, app.currentRepo.owner,
                                 app.currentRepo.repo, app.currentBranch)
            IN /\ editor' = m.ed
               /\ unsavedChanges' = m.data
               /\ app' = showLoading(app)
               /\ call' = r.call
               /\ task' = [task EXCEPT !.pc = "tree"]
               /\ Step("App_handleCommit_afterCommit", TRUE,
                       "Changes committed successfully", r.sent)
       ELSE /\ app' = hideLoading(app)
            /\ task' = NoTask
            /\ Step("App_handleCommit_afterCommit", FALSE,
                    "Commit failed: " \o task.error, <<>>)
            /\ UNCHANGED <<editor, unsavedChanges, call>>
    /\ UNCHANGED <<gitOps, cache, remote, now>>

\* ---- loadFileTree has the tree (or failed): both finally blocks run
App_handleCommit_afterTree ==
    /\ UNCHANGED <<store, auth, treeCall, savedOn>>
    /\ task.op = "handleCommit" /\ task.pc = "tree" /\ Settled(call)
    /\ app' = hideLoading(app)
    /\ Step("App_handleCommit_afterTree", call.status = "resolved",
            IF call.status = "resolved" THEN Null
            ELSE "Failed to load files: " \o NetworkError, <<>>)
    /\ call' = NoCall
    /\ task' = NoTask
    /\ UNCHANGED <<unsavedChanges, editor, gitOps, cache, remote, now>>

\* ---- push button
App_handlePush ==
    /\ UNCHANGED <<store, auth, treeCall, savedOn>>
    /\ Clickable
    /\ LET error == GitOps_push(unsavedChanges, gitOps)
       IN Step("App_handlePush", error = Null,
               IF error = Null THEN "All changes pushed" ELSE error, <<>>)
    /\ UNCHANGED <<unsavedChanges, editor, app, gitOps, cache, remote, call, task, now>>

\* ---- pull button: handlePull and GitOps.pull up to the await of getTree
App_handlePull ==
    /\ UNCHANGED <<store, auth, treeCall, savedOn>>
    /\ Clickable
    /\ LET error == GitOps_pull_check(unsavedChanges, gitOps)
           r == API_getTree(API_clearCache(cache), now, gitOps.owner, gitOps.repo,
                            gitOps.currentBranch)
       IN IF error # Null
          THEN /\ Step("App_handlePull", FALSE, error, <<>>)
               /\ UNCHANGED <<app, cache, call, task>>
          ELSE /\ cache' = API_clearCache(cache)
               /\ app' = showLoading(app)
               /\ call' = r.call
               /\ task' = [NoTask EXCEPT !.op = "handlePull", !.pc = "tree",
                                         !.branch = gitOps.currentBranch,
                                         !.before = unsavedChanges,
                                         !.cache0 = cache]
               /\ Step("App_handlePull", TRUE, Null, r.sent)
    /\ UNCHANGED <<unsavedChanges, editor, gitOps, remote, now>>

\* ---- pull's getTree has settled.  On success handlePull runs loadFileTree,
\* whose getTree finds the entry just stored, and closes the open file.
App_handlePull_afterTree ==
    /\ UNCHANGED <<store, auth, treeCall, savedOn>>
    /\ task.op = "handlePull" /\ task.pc = "tree" /\ Settled(call)
    /\ IF call.status = "resolved"
       THEN LET r == API_getTree(cache, now, app.currentRepo.owner,
                                 app.currentRepo.repo, app.currentBranch)
            IN /\ r.call.status = "resolved"
               /\ editor' = IF Truthy(app.currentFile) THEN Editor_clear(editor)
                            ELSE editor
               /\ app' = hideLoading([app EXCEPT !.currentFile = Null])
               /\ Step("App_handlePull_afterTree", TRUE,
                       "Pulled latest changes successfully", r.sent)
       ELSE /\ app' = hideLoading(app)
            /\ UNCHANGED editor
            /\ Step("App_handlePull_afterTree", FALSE, NetworkError, <<>>)
    /\ call' = NoCall
    /\ task' = NoTask
    /\ UNCHANGED <<unsavedChanges, gitOps, cache, remote, now>>

\* ---- gitOps.commitAllChanges(message) called on the GitOps object itself,
\* whatever the store holds, up to its throw or its await
CallerMessages == {"", "fix"}

GitOps_commitAllChanges_call ==
    /\ UNCHANGED <<store, auth, treeCall, savedOn>>
    /\ Quiescent /\ task.op = "none"
    /\ \E message \in CallerMessages :
       LET r == GitOps_commitAllChanges(unsavedChanges, gitOps, remote, message)
       IN IF r.error # Null
          THEN /\ task' = [NoTask EXCEPT !.op = "commitAllChanges",
                                         !.pc = "returned",
                                         !.error = r.error,
                                         !.before = unsavedChanges,
                                         !.cache0 = cache]
               /\ UNCHANGED call
               /\ StepArg("GitOps_commitAllChanges_call", FALSE, message, Null, <<>>)
          ELSE /\ remote.nextSha <= MaxCommits
               /\ call' = r.call
               /\ task' = [NoTask EXCEPT !.op = "commitAllChanges",
                                         !.pc = "commit",
                                         !.files = r.call.files,
                                         !.branch = r.call.branch,
                                         !.before = unsavedChanges,
                                         !.cache0 = cache,
                                         !.calls = r.calls]
               /\ StepArg("GitOps_commitAllChanges_call", TRUE, message, Null, r.sent)
    /\ UNCHANGED <<unsavedChanges, editor, app, gitOps, cache, remote, now>>

\* ---- that caller's await of commitAllChanges ends
GitOps_caller_resume ==
    /\ UNCHANGED <<store, auth, treeCall, savedOn>>
    /\ task.op = "commitAllChanges" /\ task.pc = "returned"
    /\ task' = NoTask
    /\ Step("GitOps_caller_resume", task.ok, Null, <<>>)
    /\ UNCHANGED <<unsavedChanges, editor, app, gitOps, cache, remote, call, now>>

\* ---- wall-clock time passes
Tick ==
    /\ UNCHANGED <<store, auth, treeCall, savedOn>>
    /\ Quiescent
    /\ now < MaxMinutes * MsPerMinute
    /\ now' = now + MsPerMinute
    /\ Step("Tick", TRUE, Null, <<>>)
    /\ UNCHANGED <<unsavedChanges, editor, app, gitOps, cache, remote, call, task>>
(***************************************************************************)
(* Auth (auth.js): the device flow.  login() awaits the device code, then  *)
(* pollForToken: poll() sends a token request; its response stores the     *)
(* token, ends the flow with an error, or schedules the next poll() with   *)
(* setTimeout.  A timer id is a positive number; pollTimeout = 0 stands    *)
(* for null.                                                               *)
(***************************************************************************)
MaxPolls == 2                          \* timers one login may schedule

Token == "gho_1"
Interval == 5                          \* seconds, from the device code response

NoAuth ==
    [pc |-> "idle",        \* login(): idle, deviceCode or polling
     pollTimeout |-> 0,    \* this.pollTimeout
     request |-> FALSE,    \* a token request is in flight
     timers |-> {},        \* the page's scheduled timers: [id, delay]
     nextTimer |-> 1,      \* the id the next setTimeout returns
     cancelled |-> FALSE,  \* history: cancelPolling ran during this login's polling
     loggedOut |-> FALSE]  \* history: logout ran and login was not called since

Auth_isAuthenticated(items) ==
    LET token == Storage_getAuthToken(items)
    IN token # Null /\ token # ""

clearTimeout(timers, id) == {t \in timers : t.id # id}

\* this.pollTimeout = setTimeout(poll, delay)
\* Variant: an id is handed out but no timer is scheduled.
Auth_setTimeout_unscheduled(a, delay) ==
    [a EXCEPT !.pollTimeout = a.nextTimer, !.nextTimer = @ + 1]

Auth_setTimeout(a, delay) ==
    [a EXCEPT !.pollTimeout = a.nextTimer,
              !.timers = @ \cup {[id |-> a.nextTimer, delay |-> delay]},
              !.nextTimer = @ + 1]

\* cancelPolling clears the timer pollTimeout names, if any; a request in
\* flight is not touched.
Auth_cancelPolling(a) ==
    IF a.pollTimeout # 0
    THEN [a EXCEPT !.timers = clearTimeout(@, a.pollTimeout), !.pollTimeout = 0]
    ELSE a

PollResponses ==
    {"access_token", "authorization_pending", "slow_down", "expired_token",
     "access_denied", "unknown", "network"}

AuthFrame == UNCHANGED <<editor, app, gitOps, cache, remote, call, task, now, treeCall, savedOn>>

\* ---- auth.login(): initiateDeviceFlow up to its await
Auth_login ==
    /\ auth.pc = "idle"
    /\ auth' = [auth EXCEPT !.pc = "deviceCode", !.cancelled = FALSE,
                            !.loggedOut = FALSE]
    /\ event' = Ev("Auth_login", TRUE)
    /\ toast' = Null
    /\ sent' = <<"deviceCode">>
    /\ UNCHANGED <<store, unsavedChanges>>
    /\ AuthFrame

\* ---- the device code arrives: pollForToken runs poll() for the first time
Auth_login_onDeviceCode ==
    /\ auth.pc = "deviceCode"
    /\ \/ /\ auth' = [auth EXCEPT !.pc = "polling", !.request = TRUE]
          /\ event' = Ev("Auth_login_onDeviceCode", TRUE)
          /\ sent' = <<"accessToken">>
       \/ /\ auth' = [auth EXCEPT !.pc = "idle"]
          /\ event' = Ev("Auth_login_onDeviceCode", FALSE)
          /\ sent' = <<>>
    /\ toast' = Null
    /\ UNCHANGED <<store, unsavedChanges>>
    /\ AuthFrame

\* ---- a scheduled timer fires: poll() sends the next token request
Auth_poll ==
    /\ \E t \in auth.timers :
          auth' = [auth EXCEPT !.timers = @ \ {t}, !.request = TRUE]
    /\ event' = Ev("Auth_poll", TRUE)
    /\ toast' = Null
    /\ sent' = <<"accessToken">>
    /\ UNCHANGED <<store, unsavedChanges>>
    /\ AuthFrame

\* ---- the response to a token request: the rest of poll()
Auth_poll_onResponse ==
    /\ auth.request
    /\ \E data \in PollResponses :
        LET a == [auth EXCEPT !.request = FALSE]
            cleared == [a EXCEPT !.timers = clearTimeout(@, a.pollTimeout)]
        IN /\ CASE data = "access_token" ->
                     /\ auth' = [cleared EXCEPT !.pc = "idle"]
                     /\ store' = Storage_setAuthToken(store, Token)
                [] data = "authorization_pending" ->
                     /\ auth.nextTimer <= MaxPolls
                     /\ auth' = Auth_setTimeout(a, Interval * 1000)
                     /\ UNCHANGED store
                [] data = "slow_down" ->
                     /\ auth.nextTimer <= MaxPolls
                     /\ auth' = Auth_setTimeout(a, (Interval + 5) * 1000)
                     /\ UNCHANGED store
                [] OTHER ->
                     /\ auth' = [cleared EXCEPT !.pc = "idle"]
                     /\ UNCHANGED store
           /\ event' = EvArg("Auth_poll_onResponse", data = "access_token", data)
    /\ toast' = Null
    /\ sent' = <<>>
    /\ UNCHANGED unsavedChanges
    /\ AuthFrame

\* ---- auth.cancelPolling()
Auth_cancelPolling_call ==
    /\ auth' = [Auth_cancelPolling(auth) EXCEPT
                   !.cancelled = @ \/ auth.pc = "polling"]
    /\ event' = Ev("Auth_cancelPolling", TRUE)
    /\ toast' = Null
    /\ sent' = <<>>
    /\ UNCHANGED <<store, unsavedChanges>>
    /\ AuthFrame

\* ---- auth.logout(): cancelPolling, then Storage.clearAll
Auth_logout ==
    /\ auth' = [Auth_cancelPolling(auth) EXCEPT
                   !.cancelled = @ \/ auth.pc = "polling",
                   !.loggedOut = TRUE]
    /\ store' = Storage_clearAll(store)
    /\ unsavedChanges' = EmptyMap
    /\ event' = Ev("Auth_logout", TRUE)
    /\ toast' = Null
    /\ sent' = <<>>
    /\ AuthFrame

(***************************************************************************)
(* Pinned files and the status bar (app.js)                                *)
(***************************************************************************)
\* ---- Storage.addPinnedFile / removePinnedFile called on either repository
Storage_addPinnedFile_call ==
    /\ Quiescent
    /\ \E repo \in {Repo, OtherRepo}, filePath \in Paths :
        /\ store' = Storage_addPinnedFile(store, Owner, repo, filePath)
        /\ StepArg("Storage_addPinnedFile", TRUE, fileKey(Owner, repo, filePath),
                   Null, <<>>)
    /\ UNCHANGED <<unsavedChanges, editor, app, gitOps, cache, remote, call, task,
                   now, auth, treeCall, savedOn>>

Storage_removePinnedFile_call ==
    /\ Quiescent
    /\ \E repo \in {Repo, OtherRepo}, filePath \in Paths :
        /\ store' = Storage_removePinnedFile(store, Owner, repo, filePath)
        /\ StepArg("Storage_removePinnedFile", TRUE, fileKey(Owner, repo, filePath),
                   Null, <<>>)
    /\ UNCHANGED <<unsavedChanges, editor, app, gitOps, cache, remote, call, task,
                   now, auth, treeCall, savedOn>>

\* ---- pin button: pinFile or unpinFile of the open file
App_togglePinCurrentFile ==
    /\ Clickable
    /\ IF ~Truthy(app.currentFile)
       THEN /\ Step("App_togglePinCurrentFile", FALSE, "No file open", <<>>)
            /\ UNCHANGED store
       ELSE IF Storage_isFilePinned(store, app.currentRepo.owner,
                                    app.currentRepo.repo, app.currentFile)
       THEN /\ store' = Storage_removePinnedFile(store, app.currentRepo.owner,
                            app.currentRepo.repo, app.currentFile)
            /\ StepArg("App_togglePinCurrentFile", TRUE, app.currentFile,
                       "File unpinned", <<>>)
       ELSE /\ store' = Storage_addPinnedFile(store, app.currentRepo.owner,
                            app.currentRepo.repo, app.currentFile)
            /\ StepArg("App_togglePinCurrentFile", TRUE, app.currentFile,
                       "File pinned", <<>>)
    /\ UNCHANGED <<unsavedChanges, editor, app, gitOps, cache, remote, call, task,
                   now, auth, treeCall, savedOn>>

\* ---- getCommitStatus: null without a branch, else the number of records
GitOps_getCommitStatus(changesData, g) ==
    IF ~Truthy(g.currentBranch) THEN <<>>
    ELSE <<[uncommitted |-> Cardinality(DOMAIN GitOps_getUnsavedChanges(changesData, g)),
            ahead |-> 0, behind |-> 0]>>

StatusText(status) ==
    IF status.uncommitted > 0
    THEN ToString(status.uncommitted) \o " uncommitted"
    ELSE "Up to date"

RateLimits == {[limit |-> 60, remaining |-> 59], [limit |-> 60, remaining |-> 0]}

RateLimitText(rateLimit) ==
    "API: " \o ToString(rateLimit.remaining) \o "/" \o ToString(rateLimit.limit)

\* ---- updateStatusBar up to its await of the rate-limit request.  (The
\* await of getCommitStatus resumes without a network response.)
App_updateStatusBar ==
    /\ Quiescent /\ task.op = "none"
    /\ LET status == GitOps_getCommitStatus(unsavedChanges, gitOps)
       IN app' = IF status # <<>>
                 THEN [app EXCEPT !.statusText = StatusText(status[1])]
                 ELSE app
    /\ call' = Pending("getRateLimit", "rateLimit")
    /\ task' = [NoTask EXCEPT !.op = "updateStatusBar", !.pc = "rateLimit"]
    /\ Step("App_updateStatusBar", TRUE, Null, <<"rateLimit">>)
    /\ UNCHANGED <<unsavedChanges, editor, gitOps, cache, remote, now, store, auth, treeCall, savedOn>>

\* ---- getRateLimit has its response: the numbers, or null (result <<>>)
\* from the catch block when the request failed
\* Variant: getRateLimit lets the request's error through.
API_getRateLimit_onResponse_throws ==
    /\ Awaiting("getRateLimit", "rateLimit")
    /\ \/ \E data \in RateLimits :
            /\ call' = Resolve(call, data)
            /\ event' = Ev("API_getRateLimit_onResponse", TRUE)
       \/ /\ call' = Reject(call)
          /\ event' = Ev("API_getRateLimit_onResponse", FALSE)
    /\ sent' = <<>>
    /\ toast' = Null
    /\ UNCHANGED <<cache, remote>>
    /\ ResponseFrame

API_getRateLimit_onResponse ==
    /\ Awaiting("getRateLimit", "rateLimit")
    /\ \/ \E data \in RateLimits :
            /\ call' = Resolve(call, data)
            /\ event' = Ev("API_getRateLimit_onResponse", TRUE)
       \/ /\ call' = [call EXCEPT !.pc = "none", !.status = "resolved",
                                  !.result = <<>>]
          /\ event' = Ev("API_getRateLimit_onResponse", FALSE)
    /\ sent' = <<>>
    /\ toast' = Null
    /\ UNCHANGED <<cache, remote>>
    /\ ResponseFrame

\* ---- updateStatusBar resumes with getRateLimit's value
App_updateStatusBar_afterRateLimit ==
    /\ task.op = "updateStatusBar" /\ task.pc = "rateLimit" /\ Settled(call)
    /\ IF call.status = "rejected"
       THEN /\ StepArg("App_updateStatusBar_afterRateLimit", FALSE, NetworkError,
                       Null, <<>>)
            /\ UNCHANGED app
       ELSE IF call.result # <<>>
       THEN /\ app' = [app EXCEPT !.rateLimitStatus = RateLimitText(call.result[1])]
            /\ Step("App_updateStatusBar_afterRateLimit", TRUE, Null, <<>>)
       ELSE /\ StepArg("App_updateStatusBar_afterRateLimit", TRUE, "unknown",
                       Null, <<>>)
            /\ UNCHANGED app
    /\ call' = NoCall
    /\ task' = NoTask
    /\ UNCHANGED <<unsavedChanges, editor, gitOps, cache, remote, now, store, auth, treeCall, savedOn>>

(***************************************************************************)
(* Initial state: the IDE screen right after loadRepository has loaded     *)
(* Owner/Repo on its default branch (branches and tree fetched and cached, *)
(* editor created, no file open).  localStorage holds an edit of another    *)
(* repository, left by an earlier session.                                 *)
(***************************************************************************)
\* The items of a signed-in session with the repository loaded
SessionItems ==
    LocalStorage_setItem(LocalStorage_setItem(Storage_setAuthToken(EmptyMap, Token),
        USER_INFO, "user"), CURRENT_REPO, [owner |-> Owner, repo |-> Repo])

\* The response cache after the repository was loaded: its branches and
\* the tree of main, both fetched at time 0
SessionCache ==
    API_setCache(
        API_setCache(EmptyMap, branchesCacheKey(Owner, Repo), {"main"}, 0),
        treeCacheKey(Owner, Repo, "main"), [sha |-> 0], 0)

InitState(changesData, items, entries) ==
    /\ unsavedChanges = changesData
    /\ store = items
    /\ auth = NoAuth
    /\ treeCall = NoTreeCall
    /\ savedOn = [k \in {fileKey(Owner, repo, path) :
                            repo \in {Repo, OtherRepo}, path \in Paths} |-> "main"]
    /\ editor = [currentFile |-> Null, originalContent |-> Null,
                 isDirty |-> FALSE,
                 owner |-> Null, repo |-> Null, value |-> Placeholder,
                 \* history: the value last passed to onDirtyStateChange
                 \* (before any call: the flag's first value), and whether
                 \* that call repeated the value of the call before it
                 lastNotified |-> FALSE, renotified |-> FALSE,
                 \* history: the content of the open file last known to
                 \* be on the remote (fetched, or sent in a commit)
                 lastCommitted |-> Null]
    /\ app = [currentRepo |-> [owner |-> Owner, repo |-> Repo],
              currentBranch |-> "main", currentFile |-> Null,
              branches |-> {"main"}, loading |-> FALSE,
              commitModal |-> FALSE,
              statusText |-> Null, rateLimitStatus |-> Null]
    /\ gitOps = [owner |-> Owner, repo |-> Repo, currentBranch |-> "main"]
    /\ remote = [refs |-> [b \in {"main"} |-> 0], nextSha |-> 1,
                 commits |-> [sha \in {0} |-> [tree |-> RootTree, parents |-> <<>>]]]
    /\ cache = entries
    /\ call = NoCall
    /\ task = NoTask
    /\ now = 0
    /\ event = Ev("Init", TRUE)
    /\ toast = Null
    /\ sent = <<>>

InitItems(changesData, items) == InitState(changesData, items, SessionCache)

InitWith(changesData) == InitItems(changesData, SessionItems)

\* The records localStorage holds at start
InitialChanges == Storage_setUnsavedChanges(EmptyMap, Owner, OtherRepo, "A.cs", "B")

Init == InitWith(InitialChanges)

\* ---- Spec: editing, saving, committing, pulling and pushing on one branch
Next ==
    \/ EditorType
    \/ EditorSaveCommand
    \/ App_saveCurrentFile
    \/ App_discardCurrentFile
    \/ App_handleFileSelect
    \/ App_handleFileSelect_afterContent
    \/ App_showCommitModal
    \/ App_cancelCommit
    \/ App_handleCommit
    \/ GitOps_commitAllChanges_return
    \/ App_handleCommit_afterCommit
    \/ App_handleCommit_afterTree
    \/ App_handlePush
    \/ App_handlePull
    \/ App_handlePull_afterTree
    \/ API_getTree_onRef
    \/ API_getTree_onTree
    \/ API_getFileContent_onContent
    \/ API_commit_onRef
    \/ API_commit_onCommit
    \/ API_commit_onBlobs
    \/ API_commit_onTree
    \/ API_commit_onCreateCommit
    \/ API_commit_onUpdateRef

Spec == Init /\ [][Next]_vars

\* ---- SpecCache: branches, commits and pulls while the clock runs, starting
\* with one edit of the repository saved by an earlier session (the editor
\* is left alone).
InitCache ==
    /\ InitWith(Storage_setUnsavedChanges(InitialChanges, Owner, Repo, "A.cs", "B"))

NextCache ==
    \/ Tick
    \/ App_switchBranch
    \/ App_switchBranch_afterTree
    \/ App_handleCreateBranch
    \/ App_handleCreateBranch_afterCreate
    \/ App_handleCreateBranch_afterBranches
    \/ App_showCommitModal
    \/ App_cancelCommit
    \/ App_handleCommit
    \/ GitOps_commitAllChanges_return
    \/ App_handleCommit_afterCommit
    \/ App_handleCommit_afterTree
    \/ App_handlePull
    \/ App_handlePull_afterTree
    \/ API_getTree_onRef
    \/ API_getTree_onTree
    \/ API_getBranches_onList
    \/ API_createBranch_onRef
    \/ API_createBranch_onCreateRef
    \/ API_commit_onRef
    \/ API_commit_onCommit
    \/ API_commit_onBlobs
    \/ API_commit_onTree
    \/ API_commit_onCreateCommit
    \/ API_commit_onUpdateRef

SpecCache == InitCache /\ [][NextCache]_vars

\* ---- SpecGitOps: the GitOps object used directly.  localStorage starts
\* with any set of saved edits of the repository beside the other
\* repository's.
RECURSIVE SaveAll(_, _, _)
SaveAll(changesData, contentOf, paths) ==
    IF paths = {} THEN changesData
    ELSE LET path == CHOOSE p \in paths : TRUE
             rest == SaveAll(changesData, contentOf, paths \ {path})
         IN IF contentOf[path] = Null THEN rest
            ELSE Storage_setUnsavedChanges(rest, Owner, Repo, path, contentOf[path])

StoreInputs ==
    {SaveAll(InitialChanges, contentOf, Paths) :
        contentOf \in [Paths -> Contents \cup {Null}]}

InitGitOps == \E changesData \in StoreInputs : InitWith(changesData)

NextGitOps ==
    \/ GitOps_commitAllChanges_call
    \/ GitOps_commitAllChanges_return
    \/ GitOps_caller_resume
    \/ API_commit_onRef
    \/ API_commit_onCommit
    \/ API_commit_onBlobs
    \/ API_commit_onTree
    \/ API_commit_onCreateCommit
    \/ API_commit_onUpdateRef

SpecGitOps == InitGitOps /\ [][NextGitOps]_vars

\* ---- SpecAuth: the Auth object used directly.  localStorage is empty, or
\* as a session that pinned a file and switched branch left it.
UsedItems ==
    Storage_setLastBranch(
        Storage_addPinnedFile(SessionItems, Owner, Repo, "A.cs"),
        Owner, Repo, "main")

InitAuth ==
    \/ InitItems(EmptyMap, EmptyMap)
    \/ InitItems(InitialChanges, UsedItems)

NextAuth ==
    \/ Auth_login
    \/ Auth_login_onDeviceCode
    \/ Auth_poll
    \/ Auth_poll_onResponse
    \/ Auth_cancelPolling_call
    \/ Auth_logout

SpecAuth == InitAuth /\ [][NextAuth]_vars

\* ---- SpecAuthLive: SpecAuth where the service answers every request it
\* was sent and the browser fires every timer that stays scheduled.
SpecAuthLive ==
    /\ SpecAuth
    /\ WF_vars(Auth_login_onDeviceCode)
    /\ WF_vars(Auth_poll_onResponse)
    /\ WF_vars(Auth_poll)

\* ---- SpecSession: files are opened and pinned, and the status bar is
\* refreshed; a record of A.cs may be in the store.
InitSession ==
    \/ InitWith(InitialChanges)
    \/ InitWith(Storage_setUnsavedChanges(InitialChanges, Owner, Repo, "A.cs", "B"))

NextSession ==
    \/ Storage_addPinnedFile_call
    \/ Storage_removePinnedFile_call
    \/ App_togglePinCurrentFile
    \/ App_handleFileSelect
    \/ App_handleFileSelect_afterContent
    \/ API_getFileContent_onContent
    \/ App_updateStatusBar
    \/ API_getRateLimit_onResponse
    \/ App_updateStatusBar_afterRateLimit

SpecSession == InitSession /\ [][NextSession]_vars

\* ---- SpecSize: isFileTooLarge applied to sizes around its threshold
SizeWindow == 50

SizeInputs == {0} \cup ((1024 * 1024 - SizeWindow)..(1024 * 1024 + SizeWindow))

\* Variant: a file of exactly 1MB is too large as well.
API_isFileTooLarge_inclusive(size) == size >= 1024 * 1024

API_isFileTooLarge(size) == size > 1024 * 1024

\* ---- api.isFileTooLarge(size); event.arg is the size asked about
API_isFileTooLarge_call ==
    /\ \E size \in SizeInputs :
          StepArg("API_isFileTooLarge", API_isFileTooLarge(size), size, Null, <<>>)
    /\ UNCHANGED <<unsavedChanges, editor, app, gitOps, cache, remote, call, task,
                   now, store, auth, treeCall, savedOn>>

NextSize ==
    \/ API_isFileTooLarge_call

SpecSize == Init /\ [][NextSize]_vars

\* ---- SpecTree: the GitHubAPI object of a new session, used by a caller
\* that commits the stored records and a caller that reads trees, with
\* nothing in between to keep their calls apart.
InitTree ==
    InitState(Storage_setUnsavedChanges(EmptyMap, Owner, Repo, "A.cs", "B"),
              SessionItems, EmptyMap)

NextTree ==
    \/ API_getTree_call
    \/ API_getTree_call_onRef
    \/ API_getTree_call_onTree
    \/ GitOps_commitAllChanges_call
    \/ GitOps_commitAllChanges_return
    \/ GitOps_caller_resume
    \/ API_commit_onRef
    \/ API_commit_onCommit
    \/ API_commit_onBlobs
    \/ API_commit_onTree
    \/ API_commit_onCreateCommit
    \/ API_commit_onUpdateRef

SpecTree == InitTree /\ [][NextTree]_vars

\* ---- SpecBranch: a file is opened and saved, a branch is created and
\* selected, and the stored records are committed.
NextBranch ==
    \/ App_handleFileSelect
    \/ App_handleFileSelect_afterContent
    \/ EditorSaveCommand
    \/ App_switchBranch
    \/ App_switchBranch_afterTree
    \/ App_handleCreateBranch
    \/ App_handleCreateBranch_afterCreate
    \/ App_handleCreateBranch_afterBranches
    \/ App_showCommitModal
    \/ App_handleCommit
    \/ GitOps_commitAllChanges_return
    \/ App_handleCommit_afterCommit
    \/ App_handleCommit_afterTree
    \/ API_getFileContent_onContent
    \/ API_getTree_onRef
    \/ API_getTree_onTree
    \/ API_getBranches_onList
    \/ API_createBranch_onRef
    \/ API_createBranch_onCreateRef
    \/ API_commit_onRef
    \/ API_commit_onCommit
    \/ API_commit_onBlobs
    \/ API_commit_onTree
    \/ API_commit_onCreateCommit
    \/ API_commit_onUpdateRef

SpecBranch == Init /\ [][NextBranch]_vars

(***************************************************************************)
(* Properties                                                              *)
(***************************************************************************)

\* The records of the active repository, read key by key
PendingOf(changesData) ==
    [filePath \in {p \in Paths : fileKey(Owner, Repo, p) \in DOMAIN changesData} |->
        changesData[fileKey(Owner, Repo, filePath)].content]

\* The last step ran an Editor operation to its end
EditorOperationCompleted ==
    \/ event.op = "EditorType"
    \/ event.op \in {"EditorSaveCommand", "App_saveCurrentFile",
                     "App_discardCurrentFile",
                     "App_handleFileSelect_afterContent"} /\ event.ok
    \/ event.op = "App_handleCommit_afterCommit" /\ event.ok
       /\ Truthy(app.currentFile)

\* C1: after every Editor operation that completes (loadFile, an edit, save,
\* discard, markAsCommitted) isDirty is true exactly when the editor's live
\* content differs from originalContent.
C1_DirtyIffContentDiffers ==
    EditorOperationCompleted =>
        (editor.isDirty <=> (Editor_getContent(editor) # editor.originalContent))

\* an edit was typed back to the original text: the flag is down again
C1_Witness ==
    /\ event.op = "EditorType"
    /\ Truthy(editor.currentFile)
    /\ Editor_getContent(editor) = editor.originalContent
    /\ ~editor.isDirty
    /\ fileKey(Owner, Repo, editor.currentFile) \in DOMAIN unsavedChanges

CommitAllSteps ==
    {"App_handleCommit", "API_commit_onRef", "API_commit_onCommit",
     "API_commit_onBlobs", "API_commit_onTree", "API_commit_onCreateCommit",
     "API_commit_onUpdateRef", "GitOps_commitAllChanges_return"}

\* C2: no step of commitAll other than its successful return changes the
\* stored records; a commitAll that fails (validation or any network step)
\* leaves the record set and every record's content as they were.
C2_FailedCommitKeepsRecords ==
    [][(/\ event'.op \in CommitAllSteps
        /\ ~(event'.op = "GitOps_commitAllChanges_return" /\ event'.ok))
       => unsavedChanges' = unsavedChanges]_vars

\* commitAll has just failed on a network step with two records pending
C2_Witness ==
    /\ event.op = "GitOps_commitAllChanges_return"
    /\ ~event.ok
    /\ task.pc = "returned"
    /\ Cardinality(DOMAIN task.files) = 2
    /\ unsavedChanges = task.before

CommitAllReturnedOk ==
    event.op = "GitOps_commitAllChanges_return" /\ event.ok

\* C3 as stated: after commitAll returns successfully no record exists for
\* the repository, whatever happened while its network calls were in flight.
C3_NoRecordAfterCommit ==
    CommitAllReturnedOk => DOMAIN PendingOf(unsavedChanges) = {}

\* C3: after commitAll returns successfully no record exists for any path
\* of the committed file list; a record that remains is for a path that had
\* no record when commitAll was called.
C3_CommittedRecordsCleared ==
    CommitAllReturnedOk =>
        /\ DOMAIN PendingOf(unsavedChanges) \cap DOMAIN task.files = {}
        /\ DOMAIN PendingOf(unsavedChanges) \cap DOMAIN PendingOf(task.before) = {}

\* commitAll has returned successfully and a record saved in flight remains
C3_Witness ==
    /\ CommitAllReturnedOk
    /\ DOMAIN task.files # {}
    /\ DOMAIN PendingOf(unsavedChanges) # {}

\* C4: commitAll makes exactly one commitMultipleFiles call; its file list
\* has one entry per record of the active repository, with that record's
\* content, and none for a record of another repository.
C4_OneCommitCall ==
    task.op = "handleCommit" =>
        /\ Len(task.calls) = 1
        /\ task.calls[1].files = PendingOf(task.before)
        /\ task.calls[1].branch = task.branch

\* a commit of both files is under way while another repository has a record
C4_Witness ==
    /\ task.op = "handleCommit"
    /\ DOMAIN task.files = Paths
    /\ fileKey(Owner, OtherRepo, "A.cs") \in DOMAIN task.before

\* C5: pull with a record of the active repository fails with the
\* prerequisite error, sends no request and leaves the response cache as it
\* was.
C5_PullRefused ==
    [][(/\ event'.op = "App_handlePull"
        /\ DOMAIN PendingOf(unsavedChanges) # {})
       => /\ ~event'.ok
          /\ toast' = CannotPull
          /\ sent' = <<>>
          /\ call' = call
          /\ cache' = cache]_vars

\* pull was refused with records pending and a cached tree
C5_Witness ==
    /\ event.op = "App_handlePull"
    /\ toast = CannotPull
    /\ DOMAIN PendingOf(unsavedChanges) # {}
    /\ treeCacheKey(Owner, Repo, "main") \in DOMAIN cache

\* C6: updateRef is sent only after getRef, getCommit, every createBlob,
\* createTree and createCommit have succeeded, and until updateRef has
\* succeeded the branch points at the commit it pointed to at the call.
C6_RefUpdatedLast ==
    call.fn = "commitMultipleFiles" =>
        /\ "updateRef" \in call.issued =>
              {"getRef", "getCommit", "createBlob", "createTree",
               "createCommit"} \subseteq call.succeeded
        /\ "updateRef" \notin call.succeeded =>
              remote.refs[call.branch] = call.ref0
        /\ (call.status = "rejected" /\ call.pc # "updateRef") =>
              "updateRef" \notin call.issued

\* the protocol failed at createCommit, before any ref update was sent
C6_Witness ==
    /\ call.fn = "commitMultipleFiles"
    /\ call.status = "rejected"
    /\ call.pc = "createCommit"
    /\ remote.refs[call.branch] = call.ref0

\* The last step called getTree for call.branch
GetTreeInvoked ==
    /\ event.ok
    /\ event.op \in {"App_switchBranch", "App_handleCommit_afterCommit",
                     "App_handlePull"}

RequestedTreeKey == treeCacheKey(Owner, Repo, call.branch)

\* C7: a getTree made while the entry of an earlier getTree for the same
\* branch is less than five minutes old sends no request; the first getTree
\* after a successful commit on the branch fetches from the network.
C7_TreeCacheHitAndRefetch ==
    /\ (/\ GetTreeInvoked
        /\ RequestedTreeKey \in DOMAIN cache
        /\ now - cache[RequestedTreeKey].timestamp < cacheDuration)
       => /\ sent = <<>>
          /\ call.status = "resolved"
          /\ call.result = <<cache[RequestedTreeKey].data>>
    /\ (event.op = "App_handleCommit_afterCommit" /\ event.ok)
       => /\ sent = <<"getRef">>
          /\ call.status = "pending"

\* the tree is fetched again after a commit made while its entry was fresh
C7_Witness ==
    /\ event.op = "App_handleCommit_afterCommit" /\ event.ok
    /\ RequestedTreeKey \in DOMAIN task.cache0
    /\ now - task.cache0[RequestedTreeKey].timestamp < cacheDuration
    /\ sent = <<"getRef">>

\* C8: when commitMultipleFiles has succeeded the tree entry of its branch
\* is absent, when createBranch has succeeded the branches entry is absent,
\* and when either has failed the cache is what it was at the call.
C8_InvalidatedOnSuccessOnly ==
    /\ (call.fn = "commitMultipleFiles" /\ call.status = "resolved")
       => treeCacheKey(Owner, Repo, call.branch) \notin DOMAIN cache
    /\ (call.fn = "createBranch" /\ call.status = "resolved")
       => branchesCacheKey(Owner, Repo) \notin DOMAIN cache
    /\ (call.fn \in {"commitMultipleFiles", "createBranch"}
        /\ call.status = "rejected")
       => cache = task.cache0

\* createBranch failed at createRef while the branches entry was cached
C8_Witness ==
    /\ call.fn = "createBranch"
    /\ call.status = "rejected"
    /\ call.pc = "createRef"
    /\ branchesCacheKey(Owner, Repo) \in DOMAIN cache

\* C9: getTree answers from the cache only when the entry is less than
\* cacheDuration old; with an entry aged cacheDuration or more it sends the
\* request, and the result of a fetch is stored with the time of storing.
C9_ServedOnlyWhileFresh ==
    /\ (GetTreeInvoked /\ sent = <<>>)
       => /\ RequestedTreeKey \in DOMAIN cache
          /\ now - cache[RequestedTreeKey].timestamp < cacheDuration
    /\ (/\ GetTreeInvoked
        /\ RequestedTreeKey \in DOMAIN cache
        /\ now - cache[RequestedTreeKey].timestamp >= cacheDuration)
       => /\ sent = <<"getRef">>
          /\ call.status = "pending"
    /\ (event.op = "API_getTree_onTree" /\ event.ok)
       => cache[RequestedTreeKey] = [data |-> call.result[1], timestamp |-> now]
    /\ (event.op = "API_getBranches_onList" /\ event.ok)
       => cache[branchesCacheKey(Owner, Repo)] =
              [data |-> call.result[1], timestamp |-> now]

\* getTree finds an entry aged exactly cacheDuration and fetches
C9_Witness ==
    /\ GetTreeInvoked
    /\ RequestedTreeKey \in DOMAIN cache
    /\ now - cache[RequestedTreeKey].timestamp = cacheDuration
    /\ sent = <<"getRef">>

C11_NothingToCommitRefused ==
    [][(/\ event'.op = "GitOps_commitAllChanges_call"
        /\ DOMAIN PendingOf(unsavedChanges) = {})
       => /\ ~event'.ok
          /\ task'.error = NoUnsavedChanges
          /\ sent' = <<>>
          /\ call' = NoCall
          /\ unsavedChanges' = unsavedChanges
          /\ cache' = cache
          /\ remote' = remote]_vars

\* the call was refused while another repository's record and the cached
\* tree were there
C11_Witness ==
    /\ event.op = "GitOps_commitAllChanges_call"
    /\ task.error = NoUnsavedChanges
    /\ DOMAIN PendingOf(unsavedChanges) = {}
    /\ fileKey(Owner, OtherRepo, "A.cs") \in DOMAIN unsavedChanges
    /\ treeCacheKey(Owner, Repo, "main") \in DOMAIN cache

\* The last step opened a file that has a saved record
ReopenedWithRecord ==
    /\ event.op = "App_handleFileSelect_afterContent" /\ event.ok
    /\ fileKey(Owner, Repo, app.currentFile) \in DOMAIN unsavedChanges

\* C12: for every saved content, the empty string included, opening the
\* path again shows the saved content, whatever content was fetched.
C12_SavedContentRestored ==
    ReopenedWithRecord =>
        Editor_getContent(editor) =
            unsavedChanges[fileKey(Owner, Repo, app.currentFile)].content

\* C13: a discard of the open file leaves isDirty false, the live content
\* equal to originalContent and no record for the path; a path opened while
\* it has no record shows the content passed to loadFile, not dirty.
C13_DiscardReverts ==
    [][/\ (event'.op = "App_discardCurrentFile" /\ event'.ok)
          => /\ ~editor'.isDirty
             /\ Editor_getContent(editor') = editor.originalContent
             /\ editor'.originalContent = editor.originalContent
             /\ fileKey(Owner, Repo, editor.currentFile) \notin DOMAIN unsavedChanges'
       /\ (/\ event'.op = "App_handleFileSelect_afterContent" /\ event'.ok
           /\ fileKey(Owner, Repo, task.path) \notin DOMAIN unsavedChanges)
          => /\ Editor_getContent(editor') = call.result[1]
             /\ editor'.originalContent = call.result[1]
             /\ ~editor'.isDirty]_vars

\* the open file has just been discarded
C13_Witness ==
    /\ event.op = "App_discardCurrentFile" /\ event.ok
    /\ Truthy(editor.currentFile)
    /\ ~editor.isDirty
    /\ Editor_getContent(editor) = editor.originalContent
    /\ fileKey(Owner, Repo, editor.currentFile) \notin DOMAIN unsavedChanges
    /\ DOMAIN PendingOf(unsavedChanges) # {}

\* The last step ran markAsCommitted on the open file
MarkAsCommittedInvoked ==
    /\ event.op = "App_handleCommit_afterCommit"
    /\ event.ok
    /\ Truthy(app.currentFile)

\* C14: markAsCommitted runs on the open file only after a commitAll that
\* succeeded and whose file list held the open file's path.
C14_MarkCommittedOnlyIfIncluded ==
    MarkAsCommittedInvoked =>
        /\ task.ok
        /\ app.currentFile \in DOMAIN task.files

\* C15: whenever no handler is running, a file is open and isDirty is false,
\* the live content is the content last known to be committed for the path:
\* the content fetched when it was opened, or the content sent for it in the
\* latest successful commit.
C15_CleanMeansCommitted ==
    (task.op = "none" /\ Truthy(editor.currentFile) /\ ~editor.isDirty) =>
        Editor_getContent(editor) = editor.lastCommitted

\* C16: a record leaves the store only in a discard of its path, in a
\* successful commit whose file list held its path, or in a logout.
C16_RemovedOnlyByDiscardCommitLogout ==
    [][\A path \in Paths :
        (/\ fileKey(Owner, Repo, path) \in DOMAIN unsavedChanges
         /\ fileKey(Owner, Repo, path) \notin DOMAIN unsavedChanges')
        => \/ /\ event'.op = "App_discardCurrentFile" /\ event'.ok
              /\ path = editor.currentFile
           \/ /\ event'.op \in {"GitOps_commitAllChanges_return",
                                "App_handleCommit_afterCommit"}
              /\ event'.ok
              /\ path \in DOMAIN task.files
           \/ event'.op = "App_handleLogout"]_vars

\* The record of the open file
OpenFileRecord == unsavedChanges[fileKey(Owner, Repo, editor.currentFile)]

OpenFileHasRecord ==
    /\ Truthy(editor.currentFile)
    /\ fileKey(Owner, Repo, editor.currentFile) \in DOMAIN unsavedChanges

\* C17: the record of the open file holds content that differs from the
\* content last known to be committed for the path, and a save never leaves
\* a record whose content equals originalContent.
C17_RecordDiffersFromCommitted ==
    /\ (task.op = "none" /\ OpenFileHasRecord)
       => OpenFileRecord.content # editor.lastCommitted
    /\ (event.op \in {"EditorSaveCommand", "App_saveCurrentFile"} /\ event.ok
            /\ OpenFileHasRecord)
       => OpenFileRecord.content # editor.originalContent

\* C18: while the repository has records, the active branch changes only in
\* a step in which the user has confirmed the change; creating a branch is
\* no exception.
C18_BranchChangeConfirmed ==
    [][(/\ app'.currentBranch # app.currentBranch
        /\ DOMAIN PendingOf(unsavedChanges) # {})
       => event'.arg = "confirmed"]_vars

\* C19: push with a record of the active repository fails with the
\* prerequisite error; with none it succeeds; either way it sends no request
\* and changes nothing.
C19_PushChecksOnly ==
    [][event'.op = "App_handlePush"
       => /\ IF DOMAIN PendingOf(unsavedChanges) # {}
             THEN ~event'.ok /\ toast' = CannotPush
             ELSE event'.ok /\ toast' = "All changes pushed"
          /\ sent' = <<>>
          /\ UNCHANGED <<unsavedChanges, editor, app, gitOps, cache, remote,
                         call, task, now>>]_vars

\* push was refused because of one saved file
C19_Witness ==
    /\ event.op = "App_handlePush"
    /\ ~event.ok
    /\ toast = CannotPush
    /\ Cardinality(DOMAIN PendingOf(unsavedChanges)) = 1

PullSteps ==
    {"App_handlePull", "API_getTree_onRef", "API_getTree_onTree",
     "App_handlePull_afterTree"}

\* C20: a pull that goes ahead starts from no record, drops the cached tree
\* of the branch and sends the ref lookup of a fresh fetch, however young
\* the entry was; no step of the pull changes the stored records, and the
\* tree it fetched is the one cached afterwards.
C20_PullRefetches ==
    [][/\ (event'.op = "App_handlePull" /\ event'.ok)
          => /\ DOMAIN PendingOf(unsavedChanges) = {}
             /\ treeCacheKey(Owner, Repo, app.currentBranch) \notin DOMAIN cache'
             /\ sent' = <<"getRef">>
             /\ call'.status = "pending"
       /\ (event'.op \in PullSteps /\ task'.op = "handlePull")
          => unsavedChanges' = unsavedChanges
       /\ (event'.op = "App_handlePull_afterTree" /\ event'.ok)
          => /\ unsavedChanges' = unsavedChanges
             /\ cache'[treeCacheKey(Owner, Repo, app.currentBranch)].data
                    = call.result[1]]_vars

\* a pull has fetched the tree although the entry it dropped was fresh
C20_Witness ==
    /\ task.op = "handlePull"
    /\ call.fn = "getTree" /\ call.status = "resolved"
    /\ event.op = "API_getTree_onTree"
    /\ RequestedTreeKey \in DOMAIN task.cache0
    /\ now > 0
    /\ now - task.cache0[RequestedTreeKey].timestamp < cacheDuration
    /\ DOMAIN PendingOf(unsavedChanges) = {}

\* C21: the commit that commitMultipleFiles creates has exactly one parent,
\* the commit the branch ref pointed to when the call read it, and its tree
\* is created on that parent's tree with exactly one regular-file blob entry
\* per submitted file.
C21_OneParentTreeOnParentTree ==
    call.fn = "commitMultipleFiles" =>
        /\ "createTree" \in call.issued =>
              /\ call.treeRequest[1].base_tree = <<remote.commits[call.ref0].tree>>
              /\ DOMAIN call.treeRequest[1].tree = DOMAIN call.files
              /\ \A path \in DOMAIN call.files :
                    call.treeRequest[1].tree[path] =
                        [path |-> path, mode |-> "100644", type |-> "blob",
                         sha |-> call.files[path]]
        /\ "createCommit" \in call.issued =>
              /\ call.created[1].parents = <<call.ref0>>
              /\ call.created[1].tree = call.newTree[1]
        /\ "createCommit" \in call.succeeded =>
              remote.commits[call.newSha] =
                  [tree |-> call.newTree[1], parents |-> <<call.ref0>>]

\* Two files were committed and the branch moved to the new commit.
C21_Witness ==
    /\ call.fn = "commitMultipleFiles"
    /\ "updateRef" \in call.succeeded
    /\ Cardinality(DOMAIN call.files) = 2
    /\ remote.refs[call.branch] = call.newSha

\* The error the claim expects for a protocol step that failed
CommitFailedError(step) == "CommitFailedError: " \o step

\* C22: when a request of the commit protocol fails, the error that reaches
\* the caller of commitAllChanges is a CommitFailedError naming the step
\* that failed.
C22_FailureNamesStep ==
    [][(event'.op = "GitOps_commitAllChanges_return" /\ call.status = "rejected")
        => task'.error = CommitFailedError(call.pc)]_vars

\* C23: when the write of a record fails in localStorage, save reports the
\* failure to its caller (it does not return success and no "Saved locally"
\* is shown), and the open file, its text and its originalContent are as
\* before.
C23_WriteFailureReported ==
    [][(event'.op \in {"EditorSaveCommand", "App_saveCurrentFile"}
            /\ event'.arg = QuotaExceededError)
        => /\ ~event'.ok
           /\ toast' # "Saved locally"
           /\ editor' = editor]_vars

\* C24: after the editor is closed no file is open, originalContent is
\* cleared, isDirty is false, and every stored record is as before.  (The
\* editor is closed with a file open when a pull has fetched the tree.)
C24_CloseClearsSession ==
    [][(event'.op = "App_handlePull_afterTree" /\ event'.ok
            /\ Truthy(editor.currentFile))
        => /\ editor'.currentFile = Null
           /\ editor'.originalContent = Null
           /\ editor'.value = Placeholder
           /\ ~editor'.isDirty
           /\ unsavedChanges' = unsavedChanges]_vars

\* C25: onDirtyStateChange is called exactly when isDirty changes, with the
\* new value: the value last notified is the flag's value, and no call
\* repeats the value of the call before it.
C25_NotificationsAlternate ==
    /\ editor.lastNotified = editor.isDirty
    /\ ~editor.renotified

\* C26: while a file stays open its originalContent changes only in
\* markAsCommitted; typing, save and discard leave it as it was.
C26_OriginalChangesOnlyOnCommit ==
    [][/\ (event'.op \in {"EditorType", "EditorSaveCommand", "App_saveCurrentFile",
                          "App_discardCurrentFile"})
            => /\ editor'.originalContent = editor.originalContent
               /\ editor'.currentFile = editor.currentFile
       /\ (Truthy(editor.currentFile) /\ editor'.currentFile = editor.currentFile
              /\ editor'.originalContent # editor.originalContent)
            => event'.op \in {"App_handleCommit_afterCommit",
                              "App_handleFileSelect_afterContent"}]_vars

\* An edited file was saved: it is still dirty, and its originalContent is
\* still the content that was loaded.
C26_Witness ==
    /\ event.op = "App_saveCurrentFile" /\ event.ok
    /\ Truthy(editor.currentFile)
    /\ editor.isDirty
    /\ editor.originalContent = editor.lastCommitted

\* C27: once cancelPolling has run during the polling of a login (logout
\* runs it too), no poll timer is scheduled and no further token request is
\* sent, also when a token request was in flight at that moment.
C27_NoPollAfterCancel ==
    [][auth'.cancelled =>
          /\ auth'.timers = {}
          /\ auth.cancelled => sent' # <<"accessToken">>]_vars

\* C28: a token is stored only by a token response that carries one; logout
\* leaves no item in the store (token, repository, pinned files, last
\* branch, user info, records); and after logout isAuthenticated is false
\* until login is called again and succeeds.
C28_CredentialLifecycle ==
    [][/\ (Storage_getAuthToken(store') # Storage_getAuthToken(store)
              /\ Auth_isAuthenticated(store'))
            => event' = EvArg("Auth_poll_onResponse", TRUE, "access_token")
       /\ event'.op = "Auth_logout"
            => store' = EmptyMap /\ unsavedChanges' = EmptyMap
       /\ auth'.loggedOut => ~Auth_isAuthenticated(store')]_vars

\* The pinned list of a repository has no path twice
NoDuplicates(list) ==
    \A i, j \in 1..Len(list) : list[i] = list[j] => i = j

\* C29: whatever addPinnedFile and removePinnedFile calls are made, a
\* repository's pinned list has no duplicate and keeps the order of adding:
\* an add appends a new path and changes nothing for a pinned one, a remove
\* takes the path out and keeps the order of the rest, and the lists of the
\* other repository stay as they are.
C29_PinnedListOrderedNoDuplicates ==
    [][\A repo \in {Repo, OtherRepo} :
        LET before == Storage_getPinnedFiles(store, Owner, repo)
            after == Storage_getPinnedFiles(store', Owner, repo)
            keep(path) == LET ne(p) == p # path IN SelectSeq(before, ne)
        IN /\ NoDuplicates(after)
           /\ \A path \in Paths :
                /\ event' = EvArg("Storage_addPinnedFile", TRUE,
                                  fileKey(Owner, repo, path))
                     => /\ after = IF includes(before, path) THEN before
                                   ELSE Append(before, path)
                        /\ includes(before, path) => store' = store
                /\ event' = EvArg("Storage_removePinnedFile", TRUE,
                                  fileKey(Owner, repo, path))
                     => after = keep(path)
                /\ event' = EvArg("App_togglePinCurrentFile", TRUE, path)
                     => after = IF repo # Repo THEN before
                                ELSE IF includes(before, path) THEN keep(path)
                                ELSE Append(before, path)
                /\ (event'.op \in {"Storage_addPinnedFile", "Storage_removePinnedFile"}
                        /\ event'.arg \notin {fileKey(Owner, repo, p) : p \in Paths})
                     => after = before]_vars

\* B.cs then A.cs were pinned in the repository, and the last call added
\* B.cs again: the list is as it was.
C29_Witness ==
    /\ event = EvArg("Storage_addPinnedFile", TRUE, fileKey(Owner, Repo, "B.cs"))
    /\ Storage_getPinnedFiles(store, Owner, Repo) = <<"B.cs", "A.cs">>
    /\ Storage_getPinnedFiles(store, Owner, OtherRepo) = <<"A.cs">>

\* C30: getRateLimit does not fail: when its request fails it returns null,
\* and updateStatusBar then runs to its end, reports no error and leaves the
\* rate-limit text as it was.
C30_RateLimitNeverFails ==
    [][/\ event'.op = "API_getRateLimit_onResponse"
            => /\ call'.status = "resolved"
               /\ ~event'.ok => call'.result = <<>>
       /\ event'.op = "App_updateStatusBar_afterRateLimit"
            => /\ event'.ok
               /\ toast' = Null
               /\ call.result = <<>> => app'.rateLimitStatus = app.rateLimitStatus]_vars

\* A status update ended after a failed rate-limit request; the text of an
\* earlier update is still shown.
C30_Witness ==
    /\ event = EvArg("App_updateStatusBar_afterRateLimit", TRUE, "unknown")
    /\ app.rateLimitStatus = "API: 59/60"
    /\ app.statusText = "1 uncommitted"

\* C31: isFileTooLarge(size) is true exactly for sizes above 1,048,576
\* bytes (1,048,576 is not too large, 1,048,577 is), and a call changes no
\* state.
C31_TooLargeAboveOneMB ==
    [][event'.op = "API_isFileTooLarge"
        => /\ event'.ok <=> event'.arg > 1048576
           /\ event'.arg = 1048576 => ~event'.ok
           /\ event'.arg = 1048577 => event'.ok
           /\ UNCHANGED <<unsavedChanges, editor, app, gitOps, cache, remote,
                          call, task, now, store, auth>>]_vars

\* The predicate was asked about a file of exactly 1,048,576 bytes.
C31_Witness ==
    event = EvArg("API_isFileTooLarge", FALSE, 1048576)

\* C32: a token response of authorization_pending or slow_down schedules the
\* next poll (after interval seconds, or interval + 5 after slow_down) and
\* leaves the login pending; the first other response settles it: with
\* access_token the token is stored and the login resolves, otherwise it
\* rejects and the store is as before.  Once settled, no request is in
\* flight and no timer is scheduled, so it cannot settle again; a timer that
\* fires sends one token request.
C32_PollUntilTerminal ==
    [][/\ event'.op = "Auth_poll_onResponse" =>
            LET next(delay) == auth.timers \cup {[id |-> auth.nextTimer, delay |-> delay]}
            IN CASE event'.arg = "authorization_pending" ->
                      /\ auth'.timers = next(Interval * 1000)
                      /\ auth'.pc = auth.pc /\ store' = store
                 [] event'.arg = "slow_down" ->
                      /\ auth'.timers = next((Interval + 5) * 1000)
                      /\ auth'.pc = auth.pc /\ store' = store
                 [] event'.arg = "access_token" ->
                      /\ Storage_getAuthToken(store') = Token
                      /\ auth'.pc = "idle" /\ event'.ok
                 [] OTHER ->
                      /\ store' = store
                      /\ auth'.pc = "idle" /\ ~event'.ok
       /\ event'.op = "Auth_poll" => sent' = <<"accessToken">> /\ auth'.request
       /\ auth'.pc # "polling" => ~auth'.request /\ auth'.timers = {}]_vars

\* A login resolved with the token after at least one scheduled retry.
C32_Witness ==
    /\ event = EvArg("Auth_poll_onResponse", TRUE, "access_token")
    /\ auth.nextTimer > 1
    /\ ~auth.cancelled /\ ~auth.loggedOut
    /\ Storage_getAuthToken(store) = Token

C34_NoTreeOlderThanCommit ==
    [][\A branch \in DOMAIN remote'.refs :
          remote'.refs[branch] # 0 =>
             /\ treeCacheKey(Owner, Repo, branch) \in DOMAIN cache'
                   => cache'[treeCacheKey(Owner, Repo, branch)].data.sha
                          = remote'.refs[branch]
             /\ ( /\ event'.op \in {"API_getTree_call", "API_getTree_call_onTree"}
                  /\ treeCall'.pc = "none" /\ treeCall'.result # <<>>
                  /\ treeCall'.repo = Repo /\ treeCall'.branch = branch )
                   => treeCall'.result[1].sha = remote'.refs[branch]]_vars

\* C38: a cache hit in getTree(owner, repo, branch, recursive) returns data
\* that was fetched for the same owner, repo, branch and recursive flag.
C38_HitReturnsOwnRequest ==
    [][( /\ event'.op = "API_getTree_call"
         /\ treeCall'.pc = "none" /\ treeCall'.result # <<>> )
          => /\ treeCall'.result[1].owner = treeCall'.owner
             /\ treeCall'.result[1].repo = treeCall'.repo
             /\ treeCall'.result[1].branch = treeCall'.branch
             /\ treeCall'.result[1].recursive = treeCall'.recursive]_vars

\* C35: every record that a successful commitAllChanges deletes holds, when
\* it is deleted, the content that was sent in that commit, so that a save
\* made while the commit's requests were in flight is not lost.
C35_DeletedRecordWasSent ==
    [][(event'.op = "GitOps_commitAllChanges_return" /\ event'.ok)
          => \A path \in DOMAIN task.files :
                ( /\ fileKey(gitOps.owner, gitOps.repo, path) \in DOMAIN unsavedChanges
                  /\ fileKey(gitOps.owner, gitOps.repo, path) \notin DOMAIN unsavedChanges' )
                   => unsavedChanges[fileKey(gitOps.owner, gitOps.repo, path)].content
                          = task.files[path]]_vars

\* C36: a record that a save wrote while branch X was the active branch is
\* never sent in a commit to a different branch Y.
C36_CommittedOnBranchOfSave ==
    [][(event'.op = "App_handleCommit" /\ event'.ok)
          => \A path \in DOMAIN call'.files :
                savedOn[fileKey(gitOps.owner, gitOps.repo, path)] = call'.branch]_vars

\* C37: while the open file is dirty and its text is not what the stored
\* record holds, the text leaves the editor only by typing or by a discard
\* the user confirmed; a pull, opening a file and switching branch leave it
\* in place or are refused.
C37_UnsavedEditsKept ==
    [][( /\ ~Editor_noFile(editor) /\ editor.isDirty
         /\ Storage_getUnsavedChanges(unsavedChanges, editor.owner, editor.repo,
                                      editor.currentFile).content # editor.value
         /\ editor'.value # editor.value )
          => \/ event'.op = "EditorType"
             \/ event'.op = "App_discardCurrentFile" /\ event'.ok]_vars

\* C39: every login call eventually settles, also when its polling is
\* cancelled by cancelPolling or logout, as long as every request is
\* answered.
C39_LoginSettles == (auth.pc # "idle") ~> (auth.pc = "idle")

====
